---- MODULE Spec2Model ----
(***************************************************************************)
(* Transaction ingestion and deduplication of the WealthWise personal      *)
(* finance tracker (src/database.py, ingestion part of src/main.py).       *)
(*                                                                         *)
(* Representation                                                          *)
(*   - a Python str is a sequence of one-character strings;               *)
(*   - a float amount is an integer number of thousandths of a euro;       *)
(*   - a pandas Timestamp at midnight is a triple <<year, month, day>>;    *)
(*   - NaN in an object column is the one-element sequence <<"NaN">>;      *)
(*   - CURRENT_TIMESTAMP is the value of the variable clock (one second    *)
(*     resolution: several calls can read the same value).                 *)
(***************************************************************************)
EXTENDS Integers, Sequences, FiniteSets, TLC

VARIABLES
    transactions,   \* table transactions, in rowid order
    db_categories,  \* table categories, in rowid order
    clock,          \* CURRENT_TIMESTAMP, in seconds
    ret,            \* the last call: its name, its arguments, the table
                    \* transactions before it (pre) and its return value (out)
    phase,          \* position of the caller in a run of several calls
    session,        \* st.session_state: categories and all_transactions_df
    categories_file \* the file categories.json

vars == <<transactions, db_categories, clock, ret, phase, session, categories_file>>

----------------------------------------------------------------------------
(* Bounds of the model *)

\* longest DataFrame handed to insert_transactions
MaxBatch == 2

\* last second the clock reaches
MaxClock == 1

----------------------------------------------------------------------------
(* Strings and numbers *)

UNCATEGORIZED_CATEGORY == "Uncategorized"

NaN == <<"NaN">>

IsNaN(v) == v = NaN

DigitChars == <<"0", "1", "2", "3", "4", "5", "6", "7", "8", "9">>

Whitespace == {" "}

Abs(x) == IF x < 0 THEN -x ELSE x

RECURSIVE IntToChars(_)
IntToChars(n) ==
    IF n < 10 THEN <<DigitChars[n + 1]>>
    ELSE IntToChars(n \div 10) \o <<DigitChars[(n % 10) + 1]>>

RECURSIVE ZeroPad(_, _)
ZeroPad(s, width) == IF Len(s) >= width THEN s ELSE ZeroPad(<<"0">> \o s, width)

\* str.strip(): leading and trailing whitespace removed
RECURSIVE LStrip(_)
LStrip(s) ==
    IF s # <<>> /\ Head(s) \in Whitespace THEN LStrip(Tail(s)) ELSE s

RECURSIVE RStrip(_)
RStrip(s) ==
    IF s # <<>> /\ s[Len(s)] \in Whitespace
    THEN RStrip(SubSeq(s, 1, Len(s) - 1))
    ELSE s

Strip(s) == RStrip(LStrip(s))

\* Timestamp.strftime('%Y-%m-%d')
Strftime(ts) ==
    ZeroPad(IntToChars(ts[1]), 4) \o <<"-">> \o ZeroPad(IntToChars(ts[2]), 2)
        \o <<"-">> \o ZeroPad(IntToChars(ts[3]), 2)

\* f"{x:.2f}" of a non-negative amount: the nearest cent.  Amounts with a 5 in
\* the thousandths are outside the model (their rounding depends on the
\* binary value of the float).
Fmt2(x) ==
    LET cents == (x + 5) \div 10
    IN  IntToChars(cents \div 100) \o <<".">> \o ZeroPad(IntToChars(cents % 100), 2)

\* hashlib.sha256(...).hexdigest(), taken to be collision free
Sha256(s) == <<"sha256", s>>

----------------------------------------------------------------------------
(* FinanceDatabase *)

GenerateTransactionHash_KindSensitive(fecha_valor, concepto, importe) ==
    Sha256(fecha_valor \o <<"|">> \o Strip(concepto) \o <<"|">>
             \o (IF importe < 0 THEN <<"-">> ELSE <<>>) \o Fmt2(Abs(importe)))

GenerateTransactionHash(fecha_valor, concepto, importe) ==
    Sha256(fecha_valor \o <<"|">> \o Strip(concepto) \o <<"|">> \o Fmt2(Abs(importe)))

\* row['Concepto'].strip() raises AttributeError when the cell is NaN
RowRaises(row) == IsNaN(row.Concepto)

HashOfRow(row) ==
    GenerateTransactionHash(Strftime(row.Fecha_valor), row.Concepto, row.Importe)

StoredHashes(tbl) == {tbl[i].transaction_hash : i \in 1..Len(tbl)}

TransactionExists(tbl, transaction_hash) == transaction_hash \in StoredHashes(tbl)

NewRecord(tbl, row, now) ==
    [id               |-> Len(tbl) + 1,
     transaction_hash |-> HashOfRow(row),
     fecha_valor      |-> Strftime(row.Fecha_valor),
     concepto         |-> row.Concepto,
     importe          |-> row.Importe,
     tipo             |-> row.Tipo,
     category         |-> row.Category,
     upload_date      |-> now,
     last_modified    |-> now]

\* INSERT OR IGNORE of one row without the UNIQUE constraint being honoured
InsertOrIgnore_NoIgnore(tbl, row, now) == Append(tbl, NewRecord(tbl, row, now))

\* INSERT OR IGNORE that replaces the stored row on a hash collision
InsertOrIgnore_Replace(tbl, row, now) ==
    IF TransactionExists(tbl, HashOfRow(row))
    THEN [i \in 1..Len(tbl) |->
            IF tbl[i].transaction_hash = HashOfRow(row)
            THEN [NewRecord(tbl, row, now) EXCEPT !.id = tbl[i].id]
            ELSE tbl[i]]
    ELSE Append(tbl, NewRecord(tbl, row, now))

\* INSERT OR IGNORE INTO transactions: the table afterwards
InsertOrIgnore(tbl, row, now) ==
    IF TransactionExists(tbl, HashOfRow(row))
    THEN tbl
    ELSE Append(tbl, NewRecord(tbl, row, now))

\* the iteration whose except branch leaves duplicate_count as it is
InsertStep_ErrorNotCounted(acc, row, now) ==
    IF RowRaises(row)
    THEN [acc EXCEPT !.errors = @ + 1]
    ELSE LET tbl == InsertOrIgnore(acc.table, row, now)
         IN  IF Len(tbl) > Len(acc.table)
             THEN [acc EXCEPT !.table = tbl, !.new_count = @ + 1]
             ELSE [acc EXCEPT !.table = tbl, !.duplicate_count = @ + 1]

\* one iteration of the loop of insert_transactions
InsertStep(acc, row, now) ==
    IF RowRaises(row)
    THEN [acc EXCEPT !.duplicate_count = @ + 1, !.errors = @ + 1]
    ELSE LET tbl == InsertOrIgnore(acc.table, row, now)
         IN  IF Len(tbl) > Len(acc.table)      \* cursor.rowcount > 0
             THEN [acc EXCEPT !.table = tbl, !.new_count = @ + 1]
             ELSE [acc EXCEPT !.table = tbl, !.duplicate_count = @ + 1]

\* the loop with break in place of continue in the except branch
RECURSIVE InsertLoop_StopAtError(_, _, _)
InsertLoop_StopAtError(acc, df, now) ==
    IF df = <<>> THEN acc
    ELSE IF RowRaises(Head(df)) THEN InsertStep(acc, Head(df), now)
    ELSE InsertLoop_StopAtError(InsertStep(acc, Head(df), now), Tail(df), now)

RECURSIVE InsertLoop(_, _, _)
InsertLoop(acc, df, now) ==
    IF df = <<>> THEN acc
    ELSE InsertLoop(InsertStep(acc, Head(df), now), Tail(df), now)

\* insert_transactions(df) on table tbl at time now: the table afterwards, the
\* returned pair and the number of rows reported with "Error inserting"
InsertTransactions(tbl, df, now) ==
    InsertLoop([table |-> tbl, new_count |-> 0, duplicate_count |-> 0, errors |-> 0],
               df, now)


\* UPDATE without its WHERE clause
UpdateTransactionCategory_AllRows(tbl, transaction_hash, new_category, now) ==
    [i \in 1..Len(tbl) |->
        [tbl[i] EXCEPT !.category = new_category, !.last_modified = now]]

\* update_transaction_category(transaction_hash, new_category): the table afterwards
UpdateTransactionCategory(tbl, transaction_hash, new_category, now) ==
    [i \in 1..Len(tbl) |->
        IF tbl[i].transaction_hash = transaction_hash
        THEN [tbl[i] EXCEPT !.category = new_category, !.last_modified = now]
        ELSE tbl[i]]

\* WHERE concepto = ? comparing the whitespace-trimmed texts
ConceptMatches_Trimmed(stored, concepto) == Strip(stored) = Strip(concepto)

\* WHERE concepto = ? (BINARY collation: the texts are the same)
ConceptMatches(stored, concepto) == stored = concepto

\* update_transactions_by_concept(concepto, new_category): the table afterwards
\* and cursor.rowcount
UpdateTransactionsByConcept(tbl, concepto, new_category, now) ==
    [table |->
        [i \in 1..Len(tbl) |->
            IF ConceptMatches(tbl[i].concepto, concepto)
            THEN [tbl[i] EXCEPT !.category = new_category, !.last_modified = now]
            ELSE tbl[i]],
     updated_count |->
        Cardinality({i \in 1..Len(tbl) : ConceptMatches(tbl[i].concepto, concepto)})]

\* json.dumps(keywords): the list, in order
JsonDumps(keywords) == <<"json", keywords>>

\* INSERT OR IGNORE INTO categories: a persisted row of that name stays as it is
InsertOrReplaceCategory_Ignore(tbl, category_name, keywords) ==
    IF \E i \in 1..Len(tbl) : tbl[i].category_name = category_name
    THEN tbl
    ELSE Append(tbl, [category_name |-> category_name, keywords |-> JsonDumps(keywords)])

\* INSERT OR REPLACE INTO categories: a row with the same category_name is
\* deleted and the new row gets a fresh rowid (the table is kept in rowid
\* order; the surrogate ids and the two timestamps of a row are left out)
InsertOrReplaceCategory(tbl, category_name, keywords) ==
    SelectSeq(tbl, LAMBDA r : r.category_name # category_name)
        \o <<[category_name |-> category_name, keywords |-> JsonDumps(keywords)]>>

\* sync_categories(categories_dict): the table afterwards
RECURSIVE SyncCategories(_, _)
SyncCategories(tbl, categories_dict) ==
    IF categories_dict = <<>> THEN tbl
    ELSE SyncCategories(
            InsertOrReplaceCategory(tbl, Head(categories_dict).name,
                                    Head(categories_dict).keywords),
            Tail(categories_dict))

----------------------------------------------------------------------------
(* Reading the store *)

DigitVal(c) == CHOOSE d \in 0..9 : DigitChars[d + 1] = c

RECURSIVE ParseInt(_)
ParseInt(s) ==
    IF s = <<>> THEN 0
    ELSE ParseInt(SubSeq(s, 1, Len(s) - 1)) * 10 + DigitVal(s[Len(s)])

\* pd.to_datetime of a stored 'YYYY-MM-DD' text
ToDatetime(iso) ==
    <<ParseInt(SubSeq(iso, 1, 4)), ParseInt(SubSeq(iso, 6, 7)),
      ParseInt(SubSeq(iso, 9, 10))>>

\* order of the characters of a stored date ('-' sorts before the digits)
CharCode(c) == IF c = "-" THEN -1 ELSE DigitVal(c)

\* a < b for TEXT values, as SQLite compares them
RECURSIVE TextLess(_, _)
TextLess(a, b) ==
    IF b = <<>> THEN FALSE
    ELSE IF a = <<>> THEN TRUE
    ELSE IF Head(a) = Head(b) THEN TextLess(Tail(a), Tail(b))
    ELSE CharCode(Head(a)) < CharCode(Head(b))

RowPermutations(n) ==
    {p \in [1..n -> 1..n] : \A i, j \in 1..n : p[i] = p[j] => i = j}

\* the columns load_all_transactions keeps, converted back
ViewOfRecord(r) ==
    [Fecha_valor |-> ToDatetime(r.fecha_valor),
     Concepto    |-> r.concepto,
     Importe     |-> r.importe,
     Tipo        |-> r.tipo,
     Category    |-> r.category]

\* row orders sorted by fecha_valor ascending
RowOrders_Ascending(tbl) ==
    {p \in RowPermutations(Len(tbl)) :
        \A i, j \in 1..Len(tbl) :
            i < j => ~TextLess(tbl[p[j]].fecha_valor, tbl[p[i]].fecha_valor)}

\* row orders that ORDER BY fecha_valor DESC allows: SQL leaves the order of
\* rows with equal keys open (a scan of idx_fecha_valor backwards returns them
\* newest first, a sort may return them in any order)
RowOrders(tbl) ==
    {p \in RowPermutations(Len(tbl)) :
        \A i, j \in 1..Len(tbl) :
            i < j => ~TextLess(tbl[p[i]].fecha_valor, tbl[p[j]].fecha_valor)}

\* load_all_transactions() whose query result loses its last row
LoadAllTransactions_DropLast(tbl, p) ==
    [k \in 1..(Len(tbl) - 1) |-> ViewOfRecord(tbl[p[k]])]

\* load_all_transactions(): the DataFrame for the row order p
LoadAllTransactions(tbl, p) == [k \in 1..Len(tbl) |-> ViewOfRecord(tbl[p[k]])]

CategoriesOf(tbl) == {tbl[i].category : i \in 1..Len(tbl)}

\* get_database_stats() with MIN and MAX exchanged in the date query
GetDatabaseStats_RangeSwapped(tbl) ==
    [total_transactions |-> Len(tbl),
     category_counts |->
        [c \in CategoriesOf(tbl) |->
            Cardinality({i \in 1..Len(tbl) : tbl[i].category = c})],
     date_range |->
        IF tbl = <<>> THEN <<"None", "None">>
        ELSE <<(CHOOSE d \in {tbl[i].fecha_valor : i \in 1..Len(tbl)} :
                    \A i \in 1..Len(tbl) : ~TextLess(d, tbl[i].fecha_valor)),
               (CHOOSE d \in {tbl[i].fecha_valor : i \in 1..Len(tbl)} :
                    \A i \in 1..Len(tbl) : ~TextLess(tbl[i].fecha_valor, d))>>]

\* get_database_stats()
GetDatabaseStats(tbl) ==
    [total_transactions |-> Len(tbl),
     category_counts |->
        [c \in CategoriesOf(tbl) |->
            Cardinality({i \in 1..Len(tbl) : tbl[i].category = c})],
     date_range |->
        IF tbl = <<>> THEN <<"None", "None">>
        ELSE <<(CHOOSE d \in {tbl[i].fecha_valor : i \in 1..Len(tbl)} :
                    \A i \in 1..Len(tbl) : ~TextLess(tbl[i].fecha_valor, d)),
               (CHOOSE d \in {tbl[i].fecha_valor : i \in 1..Len(tbl)} :
                    \A i \in 1..Len(tbl) : ~TextLess(d, tbl[i].fecha_valor))>>]

----------------------------------------------------------------------------
(* The calls made on the store *)

GROCERIES == "Groceries"

Desc_a == <<"a">>

Desc_a_padded == <<" ", "a">>

Desc_b == <<"b">>

\* rows with the same hash: description padded, amount of the other sign and
\* equal to the cent, other kind and category
Row_a ==
    [Fecha_valor |-> <<2024, 1, 2>>, Concepto |-> Desc_a, Importe |-> 12500,
     Tipo |-> "Debit", Category |-> UNCATEGORIZED_CATEGORY]

Row_a_again ==
    [Fecha_valor |-> <<2024, 1, 2>>, Concepto |-> Desc_a_padded, Importe |-> -12501,
     Tipo |-> "Credit", Category |-> GROCERIES]

\* same description and date as Row_a, another amount
Row_a_other ==
    [Fecha_valor |-> <<2024, 1, 2>>, Concepto |-> Desc_a, Importe |-> 3000,
     Tipo |-> "Debit", Category |-> GROCERIES]

\* a row of an earlier day
Row_b ==
    [Fecha_valor |-> <<2023, 12, 31>>, Concepto |-> Desc_b, Importe |-> 12500,
     Tipo |-> "Credit", Category |-> UNCATEGORIZED_CATEGORY]

\* a row whose description cell is empty
Row_nan ==
    [Fecha_valor |-> <<2024, 1, 2>>, Concepto |-> NaN, Importe |-> 3000,
     Tipo |-> "Debit", Category |-> UNCATEGORIZED_CATEGORY]

DfRows == {Row_a, Row_a_again, Row_a_other, Row_b, Row_nan}

\* the rows used where the clock runs
ClockRows == {Row_a, Row_a_again, Row_a_other, Row_nan}

\* DataFrames of one row
SingleRowFrames(rows) == {<<row>> : row \in rows}

\* DataFrames of up to MaxBatch rows
Batches == UNION {[1..n -> DfRows] : n \in 0..MaxBatch}

CategoryNames == {UNCATEGORIZED_CATEGORY, GROCERIES}

Descriptions == {Desc_a, Desc_a_padded, Desc_b}

\* hashes passed to update_transaction_category: those of the rows, stored or not
HashesOf(rows) == {HashOfRow(row) : row \in {r \in rows : ~RowRaises(r)}}

\* category registries passed to sync_categories, as ordered dicts
Registries ==
    { <<[name |-> UNCATEGORIZED_CATEGORY, keywords |-> <<>>]>>,
      <<[name |-> UNCATEGORIZED_CATEGORY, keywords |-> <<>>],
        [name |-> GROCERIES, keywords |-> <<Desc_a, Desc_b>>]>> }

\* load_categories() without a categories.json
DefaultCategories == <<[name |-> UNCATEGORIZED_CATEGORY, keywords |-> <<>>]>>

\* json.dump(categories, f): the text of the file
JsonDumpRegistry(categories) == <<"json", categories>>

\* json.load(f)
JsonLoadRegistry(text) == text[2]

\* no categories.json in the working directory
NoFile == [exists |-> FALSE, text |-> <<>>]

\* save_categories(): the file afterwards, rewritten in full
SaveCategories(categories) == [exists |-> TRUE, text |-> JsonDumpRegistry(categories)]

\* load_categories()
LoadCategories(file) ==
    IF file.exists THEN JsonLoadRegistry(file.text) ELSE DefaultCategories

Init ==
    /\ transactions = <<>>
    /\ db_categories = <<>>
    /\ clock = 0
    /\ ret = [op |-> "init"]
    /\ phase = "start"
    /\ session = [categories |-> DefaultCategories, all_transactions_df |-> <<>>]
    /\ categories_file = NoFile

\* a second passes
Tick ==
    /\ clock < MaxClock
    /\ clock' = clock + 1
    /\ UNCHANGED <<transactions, db_categories, ret, session, categories_file>>

\* insert_transactions(df) returns
InsertBatch(dfs) ==
    \E df \in dfs :
        LET r == InsertTransactions(transactions, df, clock)
        IN  /\ transactions' = r.table
            /\ ret' = [op |-> "insert_transactions", df |-> df, pre |-> transactions,
                       out |-> <<r.new_count, r.duplicate_count>>,
                       errors |-> r.errors]
            /\ UNCHANGED <<db_categories, clock>>

\* insert_transactions(df) is cut off after done rows (the process is killed,
\* or an exception that is no Exception leaves the loop): conn.commit() at the
\* end of the loop is not reached and the rows written so far are rolled back
InsertInterrupted(dfs) ==
    \E df \in dfs :
        \E done \in 0..Len(df) :
            /\ transactions' = transactions
            /\ ret' = [op |-> "insert_transactions interrupted", df |-> df,
                       pre |-> transactions, done |-> done]
            /\ UNCHANGED <<db_categories, clock>>

LoadAll ==
    \E p \in RowOrders(transactions) :
        /\ ret' = [op |-> "load_all_transactions", pre |-> transactions,
                   out |-> LoadAllTransactions(transactions, p)]
        /\ UNCHANGED <<transactions, db_categories, clock>>

UpdateCategory(hashes) ==
    \E h \in hashes, c \in CategoryNames :
        /\ transactions' = UpdateTransactionCategory(transactions, h, c, clock)
        /\ ret' = [op |-> "update_transaction_category", transaction_hash |-> h,
                   new_category |-> c, pre |-> transactions, now |-> clock]
        /\ UNCHANGED <<db_categories, clock>>

UpdateCategoryByDescription ==
    \E d \in Descriptions, c \in CategoryNames :
        LET r == UpdateTransactionsByConcept(transactions, d, c, clock)
        IN  /\ transactions' = r.table
            /\ ret' = [op |-> "update_transactions_by_concept", concepto |-> d,
                       new_category |-> c, pre |-> transactions, now |-> clock,
                       out |-> r.updated_count]
            /\ UNCHANGED <<db_categories, clock>>

\* sync_categories(categories_dict) returns
SyncRegistry(regs) ==
    \E reg \in regs :
        /\ db_categories' = SyncCategories(db_categories, reg)
        /\ ret' = [op |-> "sync_categories", categories_dict |-> reg,
                   pre |-> transactions, pre_categories |-> db_categories]
        /\ UNCHANGED <<transactions, clock>>

SyncCategoryRegistry == SyncRegistry(Registries)

Statistics ==
    /\ ret' = [op |-> "get_database_stats", pre |-> transactions,
               out |-> GetDatabaseStats(transactions)]
    /\ UNCHANGED <<transactions, db_categories, clock>>

\* any sequence of calls on the store, one row per insert, within one second
Next ==
    \/ InsertBatch(SingleRowFrames(DfRows)) /\ UNCHANGED <<phase, session, categories_file>>
    \/ LoadAll /\ UNCHANGED <<phase, session, categories_file>>
    \/ UpdateCategory(HashesOf(DfRows)) /\ UNCHANGED <<phase, session, categories_file>>
    \/ UpdateCategoryByDescription /\ UNCHANGED <<phase, session, categories_file>>
    \/ SyncCategoryRegistry /\ UNCHANGED <<phase, session, categories_file>>
    \/ Statistics /\ UNCHANGED <<phase, session, categories_file>>

Spec == Init /\ [][Next]_vars

\* inserts and category updates while the clock runs
NextClock ==
    \/ Tick /\ UNCHANGED <<phase, session, categories_file>>
    \/ InsertBatch(SingleRowFrames(ClockRows)) /\ UNCHANGED <<phase, session, categories_file>>
    \/ UpdateCategory(HashesOf(ClockRows)) /\ UNCHANGED <<phase, session, categories_file>>
    \/ UpdateCategoryByDescription /\ UNCHANGED <<phase, session, categories_file>>

SpecClock == Init /\ [][NextClock]_vars

\* a batch is inserted into an empty store or into a store of one row, the
\* run completes or is interrupted, the same batch is inserted again, and the
\* store is read
Seed ==
    /\ phase = "start"
    /\ InsertBatch(SingleRowFrames(DfRows))
    /\ phase' = "seeded"
    /\ UNCHANGED <<session, categories_file>>

FirstRun ==
    /\ phase \in {"start", "seeded"}
    /\ InsertBatch(Batches)
    /\ phase' = "ran"
    /\ UNCHANGED <<session, categories_file>>

FirstRunInterrupted ==
    /\ phase \in {"start", "seeded"}
    /\ InsertInterrupted(Batches)
    /\ phase' = "interrupted"
    /\ UNCHANGED <<session, categories_file>>

Retry ==
    /\ phase \in {"ran", "interrupted"}
    /\ InsertBatch({ret.df})
    /\ phase' = IF phase = "interrupted" THEN "recovered" ELSE "retried"
    /\ UNCHANGED <<session, categories_file>>

ReadBack ==
    /\ phase \in {"ran", "retried", "recovered"}
    /\ (LoadAll \/ Statistics)
    /\ phase' = "read"
    /\ UNCHANGED <<session, categories_file>>

NextBatch ==
    \/ Tick /\ phase \in {"seeded", "ran", "interrupted"} /\ UNCHANGED <<phase, session, categories_file>>
    \/ Seed
    \/ FirstRun
    \/ FirstRunInterrupted
    \/ Retry
    \/ ReadBack

SpecBatch == Init /\ [][NextBatch]_vars

\* records handed to generate_transaction_hash: two days (day and month
\* swapped), descriptions with blanks around and inside, amounts of both signs
\* and within the same cent, both kinds and categories
HashRows ==
    {[Fecha_valor |-> d, Concepto |-> c, Importe |-> a, Tipo |-> k[1], Category |-> k[2]] :
        d \in {<<2024, 1, 2>>, <<2024, 2, 1>>},
        c \in {Desc_a, <<" ", "a", " ">>, Desc_b, <<"a", " ", "b">>},
        a \in {12500, -12501, 12501, 12510},
        k \in {<<"Debit", UNCATEGORIZED_CATEGORY>>, <<"Credit", GROCERIES>>}}

InitHash ==
    /\ transactions = <<>>
    /\ db_categories = <<>>
    /\ clock = 0
    /\ ret \in {[op |-> "records", r1 |-> a, r2 |-> b] : a, b \in HashRows}
    /\ phase = "start"
    /\ session = [categories |-> DefaultCategories, all_transactions_df |-> <<>>]
    /\ categories_file = NoFile

\* the hashes of the two records, as insert_transactions computes them
GenerateHashes ==
    /\ phase = "start"
    /\ ret.op = "records"
    /\ ret' = [op |-> "generate_transaction_hash", r1 |-> ret.r1, r2 |-> ret.r2,
               out |-> <<HashOfRow(ret.r1), HashOfRow(ret.r2)>>]
    /\ phase' = "hashed"
    /\ UNCHANGED <<transactions, db_categories, clock, session, categories_file>>

\* the two records inserted as one DataFrame into the empty store
InsertPair ==
    /\ phase = "start"
    /\ ret.op = "records"
    /\ InsertBatch({<<ret.r1, ret.r2>>})
    /\ phase' = "inserted"
    /\ UNCHANGED <<session, categories_file>>

NextHash ==
    \/ GenerateHashes
    \/ InsertPair

SpecHash == InitHash /\ [][NextHash]_vars

----------------------------------------------------------------------------
(* load_transactions: the CSV normalizer of main.py *)

\* longest CSV file uploaded, in rows
MaxCsvRows == 2

\* the euro sign, one character
EUR == "EUR"

Digits == {DigitChars[i] : i \in 1..Len(DigitChars)}

\* Series.str.replace(c, '')
RemoveChar(s, c) == SelectSeq(s, LAMBDA x : x # c)

\* Series.str.replace(c, d)
ReplaceChar(s, c, d) == [i \in 1..Len(s) |-> IF s[i] = c THEN d ELSE s[i]]

\* .str.replace('.', '').str.replace(',', '.').str.replace('€', '')
CleanAmount(cell) == RemoveChar(ReplaceChar(RemoveChar(cell, "."), ",", "."), EUR)

Unsigned(s) == IF s # <<>> /\ Head(s) \in {"-", "+"} THEN Tail(s) ELSE s

DotsOf(s) == {i \in 1..Len(s) : s[i] = "."}

\* texts float() and the CSV reader take for a number: blanks around, a sign,
\* digits with at most one '.' (exponents, inf, nan and '_' are not in the
\* alphabet of the model)
FloatSyntax(s) ==
    LET u == Unsigned(Strip(s))
    IN  /\ Cardinality(DotsOf(u)) <= 1
        /\ \A i \in 1..Len(u) : u[i] \in Digits \cup {"."}
        /\ \E i \in 1..Len(u) : u[i] \in Digits

\* float(s) in thousandths, for texts with at most three decimals
ParseFloat(s) ==
    LET t == Strip(s)
        u == Unsigned(t)
        dot == IF DotsOf(u) = {} THEN Len(u) + 1 ELSE CHOOSE i \in DotsOf(u) : TRUE
        whole == SubSeq(u, 1, dot - 1)
        decimals == SubSeq(SubSeq(u, dot + 1, Len(u)) \o <<"0", "0", "0">>, 1, 3)
        magnitude == ParseInt(whole) * 1000 + ParseInt(decimals)
    IN  IF Head(t) = "-" THEN -magnitude ELSE magnitude

\* the kind with the comparison x <= 0
KindOf_ZeroIsDebit(x) == IF x <= 0 THEN "Debit" ELSE "Credit"

\* lambda x: 'Debit' if x < 0 else 'Credit'
KindOf(x) == IF x < 0 THEN "Debit" ELSE "Credit"

IsLeap(y) == (y % 4 = 0 /\ y % 100 # 0) \/ y % 400 = 0

DaysInMonth(y, m) ==
    IF m = 2 THEN (IF IsLeap(y) THEN 29 ELSE 28)
    ELSE IF m \in {4, 6, 9, 11} THEN 30 ELSE 31

SlashesOf(s) == {i \in 1..Len(s) : s[i] = "/"}

\* the three fields of a text with two '/'
DateFields(s) ==
    LET a == CHOOSE i \in SlashesOf(s) : \A j \in SlashesOf(s) : i <= j
        b == CHOOSE i \in SlashesOf(s) : \A j \in SlashesOf(s) : j <= i
    IN  <<SubSeq(s, 1, a - 1), SubSeq(s, a + 1, b - 1), SubSeq(s, b + 1, Len(s))>>

AllDigits(s) == \A i \in 1..Len(s) : s[i] \in Digits

\* texts pd.to_datetime(..., format='%d/%m/%Y') accepts
DateSyntax(s) ==
    /\ Cardinality(SlashesOf(s)) = 2
    /\ LET f == DateFields(s)
       IN  /\ Len(f[1]) \in 1..2 /\ AllDigits(f[1])
           /\ Len(f[2]) \in 1..2 /\ AllDigits(f[2])
           /\ Len(f[3]) = 4 /\ AllDigits(f[3])
           /\ ParseInt(f[2]) \in 1..12
           /\ ParseInt(f[1]) \in 1..DaysInMonth(ParseInt(f[3]), ParseInt(f[2]))

\* pd.to_datetime(cell, format='%d/%m/%Y')
ParseDate(s) ==
    LET f == DateFields(s) IN <<ParseInt(f[3]), ParseInt(f[2]), ParseInt(f[1])>>

\* str.lower()
Lower(s) == [i \in 1..Len(s) |-> IF s[i] = "A" THEN "a" ELSE IF s[i] = "B" THEN "b" ELSE s[i]]

\* keyword in details
IsSubstring(keyword, details) ==
    \E i \in 0..(Len(details) - Len(keyword)) :
        SubSeq(details, i + 1, i + Len(keyword)) = keyword

\* a category that categorize_transactions does not skip
HasKeywords(entry) == entry.name # UNCATEGORIZED_CATEGORY /\ entry.keywords # <<>>

\* the keywords compared without .lower()
KeywordMatch_CaseSensitive(keywords, concepto) ==
    \E k \in 1..Len(keywords) : IsSubstring(Strip(keywords[k]), Strip(concepto))

\* any(keyword in details for keyword in lowered_keywords)
KeywordMatch(keywords, concepto) ==
    \E k \in 1..Len(keywords) :
        IsSubstring(Strip(Lower(keywords[k])), Strip(Lower(concepto)))

\* the Category of one row after the loop over categories.items(): every
\* category with a matching keyword overwrites the one set before
RECURSIVE CategoryOf(_, _, _)
CategoryOf(categories, concepto, current) ==
    IF categories = <<>> THEN current
    ELSE CategoryOf(Tail(categories), concepto,
                    IF HasKeywords(Head(categories))
                       /\ KeywordMatch(Head(categories).keywords, concepto)
                    THEN Head(categories).name ELSE current)

\* a keyword that is a str: a JSON number merged into a keyword list is the
\* pair <<"number", digits>>
IsText(keyword) == keyword = <<>> \/ keyword[1] # "number"

\* keyword.lower() raises for a keyword that is no str
KeywordsRaise(entry) ==
    HasKeywords(entry) /\ \E k \in 1..Len(entry.keywords) : ~IsText(entry.keywords[k])

\* categorize_transactions raises: keyword.lower() on a keyword that is no
\* str, or row['Concepto'].lower() on a NaN cell, reached when some category
\* has keywords
CategorizeRaises(df, categories) ==
    \/ \E c \in 1..Len(categories) : KeywordsRaise(categories[c])
    \/ /\ \E c \in 1..Len(categories) : HasKeywords(categories[c])
       /\ \E k \in 1..Len(df) : IsNaN(df[k].Concepto)

\* categorize_transactions(df)
CategorizeTransactions(df, categories) ==
    [k \in 1..Len(df) |->
        [Fecha_valor |-> df[k].Fecha_valor, Concepto |-> df[k].Concepto,
         Importe |-> df[k].Importe, Tipo |-> df[k].Tipo,
         Category |-> CategoryOf(categories, df[k].Concepto, UNCATEGORIZED_CATEGORY)]]

\* pd.read_csv of a description cell: an empty cell is NaN
ReadConcepto(cell) == IF cell = <<>> THEN NaN ELSE cell

\* the try block of load_transactions raises before insert_transactions:
\* the Importe column was read as numbers (no .str accessor), a cleaned
\* amount is no float, a date does not match the format, or the
\* categorization raises
NormalizeRaises(file, categories) ==
    \/ file # <<>> /\ \A k \in 1..Len(file) : FloatSyntax(file[k].Importe)
    \/ \E k \in 1..Len(file) : ~FloatSyntax(CleanAmount(file[k].Importe))
    \/ \E k \in 1..Len(file) : ~DateSyntax(file[k].Fecha_valor)
    \/ CategorizeRaises([k \in 1..Len(file) |-> [Concepto |-> ReadConcepto(file[k].Concepto)]],
                        categories)

\* the DataFrame load_transactions hands to insert_transactions
Normalize(file, categories) ==
    CategorizeTransactions(
        [k \in 1..Len(file) |->
            LET x == ParseFloat(CleanAmount(file[k].Importe))
            IN  [Fecha_valor |-> ParseDate(file[k].Fecha_valor),
                 Concepto    |-> ReadConcepto(file[k].Concepto),
                 Importe     |-> Abs(x),
                 Tipo        |-> KindOf(x)]],
        categories)

\* cells of the uploaded files
Date_2Jan == <<"0", "2", "/", "0", "1", "/", "2", "0", "2", "4">>

Date_31Dec == <<"3", "1", "/", "1", "2", "/", "2", "0", "2", "3">>

Date_iso == <<"2", "0", "2", "4", "-", "0", "1", "-", "0", "2">>

Amount_1234_56 == <<"1", ".", "2", "3", "4", ",", "5", "6", EUR>>

Amount_minus_12_50 == <<"-", "1", "2", ",", "5", "0", EUR>>

Amount_0_00 == <<"0", ",", "0", "0", EUR>>

Amount_minus_0_00 == <<"-", "0", ",", "0", "0", EUR>>

Amount_12_50_bare == <<"1", "2", ",", "5", "0">>

Amount_plain_100 == <<"1", "0", "0">>

Amount_two_commas == <<"1", "2", ",", "5", ",", "0">>

Amount_3_00 == <<"3", ",", "0", "0", EUR>>

\* rows of the uploaded files: the amounts of the examples, an amount that
\* differs from another in sign only, a negative zero, a file cell pandas reads
\* as a number, a malformed amount, a malformed date, an empty description
CsvRows ==
    { [Fecha_valor |-> Date_2Jan,  Concepto |-> <<"A">>, Importe |-> Amount_1234_56],
      [Fecha_valor |-> Date_2Jan,  Concepto |-> <<"a">>, Importe |-> Amount_minus_12_50],
      [Fecha_valor |-> Date_31Dec, Concepto |-> <<"b">>, Importe |-> Amount_0_00],
      [Fecha_valor |-> Date_2Jan,  Concepto |-> <<"b">>, Importe |-> Amount_minus_0_00],
      [Fecha_valor |-> Date_2Jan,  Concepto |-> <<"a">>, Importe |-> Amount_12_50_bare],
      [Fecha_valor |-> Date_2Jan,  Concepto |-> <<"a">>, Importe |-> Amount_plain_100],
      [Fecha_valor |-> Date_2Jan,  Concepto |-> <<"a">>, Importe |-> Amount_two_commas],
      [Fecha_valor |-> Date_iso,   Concepto |-> <<"a">>, Importe |-> Amount_3_00],
      [Fecha_valor |-> Date_2Jan,  Concepto |-> <<>>,    Importe |-> Amount_3_00] }

CsvFiles == UNION {[1..n -> CsvRows] : n \in 0..MaxCsvRows}

\* contents of categories.json at start-up
SessionRegistries ==
    { DefaultCategories,
      <<[name |-> UNCATEGORIZED_CATEGORY, keywords |-> <<>>],
        [name |-> GROCERIES, keywords |-> <<<<"A", " ">>>>]>> }

\* initialize_session_state(): categories loaded, the table empty
InitIngest ==
    /\ transactions = <<>>
    /\ db_categories = <<>>
    /\ clock = 0
    /\ ret = [op |-> "init"]
    /\ phase = "start"
    /\ \E reg \in SessionRegistries :
        /\ session = [categories |-> reg, all_transactions_df |-> <<>>]
        /\ categories_file = SaveCategories(reg)

\* load_transactions(file) that stores the rows before the first row it
\* cannot parse
LoadTransactions_PrefixStored(files) ==
    \E file \in files :
        IF NormalizeRaises(file, session.categories)
        THEN LET bad == {k \in 1..Len(file) :
                            \/ ~FloatSyntax(CleanAmount(file[k].Importe))
                            \/ ~DateSyntax(file[k].Fecha_valor)}
                 prefix == IF bad = {} THEN <<>>
                           ELSE SubSeq(file, 1, (CHOOSE k \in bad : \A j \in bad : k <= j) - 1)
                 stored == IF NormalizeRaises(prefix, session.categories)
                           THEN transactions
                           ELSE InsertTransactions(transactions,
                                    Normalize(prefix, session.categories), clock).table
             IN  /\ transactions' = stored
                 /\ ret' = [op |-> "load_transactions", file |-> file,
                            pre |-> transactions, ok |-> FALSE]
                 /\ UNCHANGED <<db_categories, clock, session, categories_file>>
        ELSE LET df == Normalize(file, session.categories)
                 r  == InsertTransactions(transactions, df, clock)
             IN  \E p \in RowOrders(r.table) :
                    /\ transactions' = r.table
                    /\ session' = [session EXCEPT !.all_transactions_df =
                                        LoadAllTransactions(r.table, p)]
                    /\ db_categories' = SyncCategories(db_categories, session.categories)
                    /\ ret' = [op |-> "load_transactions", file |-> file,
                               pre |-> transactions, ok |-> TRUE, out |-> df,
                               counts |-> <<r.new_count, r.duplicate_count>>]
                    /\ UNCHANGED <<clock, categories_file>>

\* load_transactions(file), the AI Categorize button not pressed
LoadTransactions(files) ==
    \E file \in files :
        IF NormalizeRaises(file, session.categories)
        THEN /\ ret' = [op |-> "load_transactions", file |-> file,
                        pre |-> transactions, ok |-> FALSE]
             /\ UNCHANGED <<transactions, db_categories, clock, session, categories_file>>
        ELSE LET df == Normalize(file, session.categories)
                 r  == InsertTransactions(transactions, df, clock)
             IN  \E p \in RowOrders(r.table) :
                    /\ transactions' = r.table
                    /\ session' = [session EXCEPT !.all_transactions_df =
                                        LoadAllTransactions(r.table, p)]
                    /\ db_categories' = SyncCategories(db_categories, session.categories)
                    /\ ret' = [op |-> "load_transactions", file |-> file,
                               pre |-> transactions, ok |-> TRUE, out |-> df,
                               counts |-> <<r.new_count, r.duplicate_count>>]
                    /\ UNCHANGED <<clock, categories_file>>

\* a file is uploaded, then a file of one row
Upload ==
    /\ phase = "start"
    /\ LoadTransactions(CsvFiles)
    /\ phase' = "uploaded"

UploadAgain ==
    /\ phase = "uploaded"
    /\ LoadTransactions(SingleRowFrames(CsvRows))
    /\ phase' = "uploaded again"

NextIngest ==
    \/ Upload
    \/ UploadAgain

SpecIngest == InitIngest /\ [][NextIngest]_vars

----------------------------------------------------------------------------
(* categorize_transactions on its own *)

\* most entries of a category registry
MaxCategories == 2

TRANSPORT == "Transport"

\* keyword lists of a registry entry: none, an upper-case keyword, a padded
\* one, two keywords
KeywordLists ==
    { <<>>, <<<<"A">>>>, <<<<"b", " ">>>>, <<<<"a", "b">>, <<"c">>>> }

\* st.session_state.categories: a dict in insertion order, no name twice
CategoryRegistries ==
    UNION { {reg \in [1..n -> [name : {UNCATEGORIZED_CATEGORY, GROCERIES, TRANSPORT},
                               keywords : KeywordLists]] :
                \A i, j \in 1..n : reg[i].name = reg[j].name => i = j}
            : n \in 1..MaxCategories }

\* the Concepto cells of the DataFrame
ConceptoCells ==
    { <<"a">>, <<" ", "A", "B", " ">>, <<"b">>, <<"c", " ", "a">>, <<"x">>, NaN }

InitCategorize ==
    /\ transactions = <<>>
    /\ db_categories = <<>>
    /\ clock = 0
    /\ ret = [op |-> "init"]
    /\ phase = "start"
    /\ \E reg \in CategoryRegistries :
        /\ session = [categories |-> reg, all_transactions_df |-> <<>>]
        /\ categories_file = SaveCategories(reg)

\* categorize_transactions(df) on a DataFrame of one row
Categorize ==
    /\ phase = "start"
    /\ \E cell \in ConceptoCells :
        LET df == <<[Concepto |-> cell]>>
        IN  ret' = IF CategorizeRaises(df, session.categories)
                   THEN [op |-> "categorize_transactions", df |-> df, ok |-> FALSE]
                   ELSE [op |-> "categorize_transactions", df |-> df, ok |-> TRUE,
                         out |-> [k \in 1..Len(df) |->
                                    CategoryOf(session.categories, df[k].Concepto,
                                               UNCATEGORIZED_CATEGORY)]]
    /\ phase' = "categorized"
    /\ UNCHANGED <<transactions, db_categories, clock, session, categories_file>>

NextCategorize == Categorize

SpecCategorize == InitCategorize /\ [][NextCategorize]_vars

----------------------------------------------------------------------------
(* insert_transactions with a failing storage *)

\* one iteration of the loop when cursor.execute may raise sqlite3.Error (a
\* locked or full database): the except branch of the loop catches it
InsertStepStorage(acc, row, now, fault) ==
    IF fault
    THEN [acc EXCEPT !.duplicate_count = @ + 1, !.errors = @ + 1]
    ELSE InsertStep(acc, row, now)

\* the loop of insert_transactions; faults[k] says that the execute of row k
\* raises
RECURSIVE InsertLoopStorage(_, _, _, _)
InsertLoopStorage(acc, df, now, faults) ==
    IF df = <<>> THEN acc
    ELSE InsertLoopStorage(InsertStepStorage(acc, Head(df), now, Head(faults)),
                           Tail(df), now, Tail(faults))

\* insert_transactions(df) returns, the storage failing at the rows of faults
InsertWithFaults(dfs) ==
    \E df \in dfs :
        \E faults \in [1..Len(df) -> BOOLEAN] :
            LET r == InsertLoopStorage([table |-> transactions, new_count |-> 0,
                                        duplicate_count |-> 0, errors |-> 0],
                                       df, clock, faults)
            IN  /\ transactions' = r.table
                /\ ret' = [op |-> "insert_transactions", df |-> df, pre |-> transactions,
                           out |-> <<r.new_count, r.duplicate_count>>,
                           errors |-> r.errors, faults |-> faults]
                /\ UNCHANGED <<db_categories, clock>>

\* conn.commit() raises: it is outside the try of the loop, the exception
\* leaves insert_transactions and the connection's context manager rolls back
InsertCommitFails(dfs) ==
    \E df \in dfs :
        /\ transactions' = transactions
        /\ ret' = [op |-> "insert_transactions raised", df |-> df, pre |-> transactions]
        /\ UNCHANGED <<db_categories, clock>>

StorageRun ==
    /\ phase \in {"start", "seeded"}
    /\ InsertWithFaults(Batches)
    /\ phase' = "ran"
    /\ UNCHANGED <<session, categories_file>>

StorageRunCommitFails ==
    /\ phase \in {"start", "seeded"}
    /\ InsertCommitFails(Batches)
    /\ phase' = "raised"
    /\ UNCHANGED <<session, categories_file>>

NextStorage ==
    \/ Seed
    \/ StorageRun
    \/ StorageRunCommitFails

SpecStorage == Init /\ [][NextStorage]_vars

----------------------------------------------------------------------------
(* sync_categories called several times *)

\* the mappings passed: the default one, Groceries added, Groceries with its
\* keywords in another order and the keys in another order, Groceries with
\* fewer keywords, another category in place of Groceries
SyncRegistries ==
    Registries \cup
    { <<[name |-> GROCERIES, keywords |-> <<Desc_b, Desc_a>>],
        [name |-> UNCATEGORIZED_CATEGORY, keywords |-> <<>>]>>,
      <<[name |-> UNCATEGORIZED_CATEGORY, keywords |-> <<>>],
        [name |-> GROCERIES, keywords |-> <<Desc_a>>]>>,
      <<[name |-> UNCATEGORIZED_CATEGORY, keywords |-> <<Desc_a>>],
        [name |-> TRANSPORT, keywords |-> <<Desc_b>>]>>,
      <<[name |-> TRANSPORT, keywords |-> <<>>]>> }

NextSync == SyncRegistry(SyncRegistries) /\ UNCHANGED <<phase, session, categories_file>>

SpecSync == Init /\ [][NextSync]_vars

----------------------------------------------------------------------------
(* every operation of the store, with the clock running *)

NextLifecycle ==
    \/ NextClock
    \/ SyncCategoryRegistry /\ UNCHANGED <<phase, session, categories_file>>
    \/ Statistics /\ UNCHANGED <<phase, session, categories_file>>

SpecLifecycle == Init /\ [][NextLifecycle]_vars

----------------------------------------------------------------------------
(* the category registry of main.py and its AI enrichment *)

\* most keywords the registry holds when add_keywords_to_category is called
MaxKeywords == 2

NamesOf(categories) == {categories[c].name : c \in 1..Len(categories)}

\* st.session_state.categories[category]
KeywordsOf(categories, category) ==
    categories[CHOOSE c \in 1..Len(categories) : categories[c].name = category].keywords

\* st.session_state.categories[category].append(keyword)
AppendKeyword(categories, category, keyword) ==
    [c \in 1..Len(categories) |->
        IF categories[c].name = category
        THEN [categories[c] EXCEPT !.keywords = Append(@, keyword)]
        ELSE categories[c]]

\* sum(len(keywords) for keywords in categories.values())
RECURSIVE KeywordCount(_)
KeywordCount(categories) ==
    IF categories = <<>> THEN 0
    ELSE Len(Head(categories).keywords) + KeywordCount(Tail(categories))

\* render_category_management: the registry after "Add Category"
AddCategoryTo(categories, new_category) ==
    IF new_category # "" /\ new_category \notin NamesOf(categories)
    THEN Append(categories, [name |-> new_category, keywords |-> <<>>])
    ELSE categories

\* add_keywords_to_category returns True: the text as typed is not empty and
\* is not in the list
KeywordIsAdded(categories, category, keywords) ==
    /\ keywords # <<>>
    /\ \A k \in 1..Len(KeywordsOf(categories, category)) :
            KeywordsOf(categories, category)[k] # keywords

\* add_keywords_to_category that appends nothing
AddKeywordsToCategory_NotAdded(categories, category, keywords) == categories

\* add_keywords_to_category(category, keywords): the registry afterwards
AddKeywordsToCategory(categories, category, keywords) ==
    IF KeywordIsAdded(categories, category, keywords)
    THEN AppendKeyword(categories, category, Strip(keywords))
    ELSE categories

\* add_keywords_to_category without its call of save_categories()
FileAfterAddKeywords_NotSaved(file, categories, category, keywords) == file

\* categories.json after add_keywords_to_category(category, keywords)
FileAfterAddKeywords(file, categories, category, keywords) ==
    IF KeywordIsAdded(categories, category, keywords)
    THEN SaveCategories(AddKeywordsToCategory(categories, category, keywords))
    ELSE file

\* categories.json after "Add Category"
FileAfterAddCategory(file, categories, new_category) ==
    IF AddCategoryTo(categories, new_category) # categories
    THEN SaveCategories(AddCategoryTo(categories, new_category))
    ELSE file

\* JSON values of an AI response
JsonArray(items) == [type |-> "array", items |-> items]

JsonString(chars) == [type |-> "string", chars |-> chars]

JsonNumber == [type |-> "number"]

JsonNull == [type |-> "null"]

JsonObject(members) == [type |-> "object", members |-> members]

\* a JSON number as an item of a keyword list
NumberItem == <<"number", "7">>

\* 'for keyword in new_keywords' raises TypeError
IterRaises(value) == value.type \in {"number", "null"}

\* the values 'for keyword in new_keywords' yields: the items of a list, the
\* characters of a str
IterItems(value) ==
    IF value.type = "array" THEN value.items
    ELSE [i \in 1..Len(value.chars) |-> <<value.chars[i]>>]

\* the loop 'if keyword not in existing_keywords: existing_keywords.append(keyword)'
RECURSIVE MergeKeywords(_, _)
MergeKeywords(existing_keywords, new_keywords) ==
    IF new_keywords = <<>> THEN existing_keywords
    ELSE MergeKeywords(
            IF \E k \in 1..Len(existing_keywords) : existing_keywords[k] = Head(new_keywords)
            THEN existing_keywords
            ELSE Append(existing_keywords, Head(new_keywords)),
            Tail(new_keywords))

\* the keyword list of a category replaced by the AI's list
MergeCategory_Replace(categories, category, value) ==
    [c \in 1..Len(categories) |->
        IF categories[c].name = category
        THEN [categories[c] EXCEPT !.keywords = IterItems(value)]
        ELSE categories[c]]

\* the new keywords of one category of the response merged into the copy
MergeCategory(categories, category, value) ==
    [c \in 1..Len(categories) |->
        IF categories[c].name = category
        THEN [categories[c] EXCEPT !.keywords = MergeKeywords(@, IterItems(value))]
        ELSE categories[c]]

\* the loop over new_keywords_only.items(): categories that the registry does
\* not hold are skipped
RECURSIVE MergeMembers(_, _)
MergeMembers(updated_categories, members) ==
    IF members = <<>> THEN [raised |-> FALSE, categories |-> updated_categories]
    ELSE IF Head(members).name \notin NamesOf(updated_categories)
    THEN MergeMembers(updated_categories, Tail(members))
    ELSE IF IterRaises(Head(members).value)
    THEN [raised |-> TRUE, categories |-> updated_categories]
    ELSE MergeMembers(MergeCategory(updated_categories, Head(members).name,
                                    Head(members).value),
                      Tail(members))

\* categorize_transactions_ai that returns new_keywords_only, the dictionary
\* of the response, in place of the merged copy of the registry
CategorizeTransactionsAI_NewKeywordsOnly(categories, response) ==
    IF response.kind # "json" THEN [none |-> TRUE]
    ELSE IF response.value.type # "object" THEN [none |-> TRUE]
    ELSE LET merged == MergeMembers(categories, response.value.members)
         IN  IF merged.raised THEN [none |-> TRUE]
             ELSE [none |-> FALSE,
                   categories |->
                        [m \in 1..Len(response.value.members) |->
                            [name |-> response.value.members[m].name,
                             keywords |-> IterItems(response.value.members[m].value)]]]

\* categorize_transactions_ai(categories_json, ...): None, or the updated
\* dictionary.  A response is the failure of the API call, a text that is no
\* JSON, or a JSON text (markdown fences removed) with its value.
CategorizeTransactionsAI(categories, response) ==
    IF response.kind # "json" THEN [none |-> TRUE]
    ELSE IF response.value.type # "object" THEN [none |-> TRUE]
    ELSE LET merged == MergeMembers(categories, response.value.members)
         IN  IF merged.raised THEN [none |-> TRUE]
             ELSE [none |-> FALSE, categories |-> merged.categories]

\* the entries categorize_transactions goes through before it raises
RECURSIVE EntriesBeforeRaise(_)
EntriesBeforeRaise(categories) ==
    IF categories = <<>> \/ KeywordsRaise(Head(categories)) THEN <<>>
    ELSE <<Head(categories)>> \o EntriesBeforeRaise(Tail(categories))

\* df after categorize_transactions(df), which works in place: when a keyword
\* raises, the categories before it have been applied
CategorizeInPlace(df, categories) ==
    CategorizeTransactions(df, EntriesBeforeRaise(categories))

\* ai_categorize_uncategorized_transactions(df): the registry, the file and
\* df afterwards.  The AI is not called when no row is Uncategorized; printing
\* desc[:60] raises for a NaN description, the merge happens when the
\* dictionary returned is not empty and holds more keywords than the registry.
AICategorizeUncategorized(df, categories, file, response) ==
    LET uncategorized == SelectSeq(df, LAMBDA row : row.Category = UNCATEGORIZED_CATEGORY)
        unchanged == [categories |-> categories, file |-> file, df |-> df, merged |-> FALSE]
    IN  IF uncategorized = <<>> THEN unchanged
        ELSE IF \E k \in 1..Len(uncategorized) : IsNaN(uncategorized[k].Concepto)
        THEN unchanged
        ELSE LET updated == CategorizeTransactionsAI(categories, response)
             IN  IF updated.none THEN unchanged
                 ELSE IF updated.categories # <<>>
                         /\ KeywordCount(updated.categories) > KeywordCount(categories)
                 THEN [categories |-> updated.categories,
                       file |-> SaveCategories(updated.categories),
                       df |-> CategorizeInPlace(df, updated.categories),
                       merged |-> TRUE]
                 ELSE unchanged

\* an AI response that is a JSON text
JsonResponse(value) == [kind |-> "json", value |-> value]

\* what the AI call gives: an exception, a text that is no JSON, JSON values
\* that are no object, and objects: new keywords (one of them known), a str,
\* a number, a list holding a number in place of a keyword list, a category
\* the registry may not hold, a good list followed by null, no member, two
\* categories
AIResponses ==
    << [kind |-> "error"],
       [kind |-> "text"],
       JsonResponse(JsonArray(<<Desc_b>>)),
       JsonResponse(JsonNumber),
       JsonResponse(JsonNull),
       JsonResponse(JsonString(Desc_b)),
       JsonResponse(JsonObject(<<[name |-> GROCERIES,
                                  value |-> JsonArray(<<Desc_b, <<"A", " ">>>>)]>>)),
       JsonResponse(JsonObject(<<[name |-> GROCERIES,
                                  value |-> JsonString(<<"a", "b">>)]>>)),
       JsonResponse(JsonObject(<<[name |-> GROCERIES, value |-> JsonNumber]>>)),
       JsonResponse(JsonObject(<<[name |-> GROCERIES,
                                  value |-> JsonArray(<<NumberItem>>)]>>)),
       JsonResponse(JsonObject(<<[name |-> TRANSPORT, value |-> JsonArray(<<Desc_b>>)]>>)),
       JsonResponse(JsonObject(<<[name |-> UNCATEGORIZED_CATEGORY,
                                  value |-> JsonArray(<<Desc_b>>)],
                                 [name |-> GROCERIES, value |-> JsonNull]>>)),
       JsonResponse(JsonObject(<<>>)),
       JsonResponse(JsonObject(<<[name |-> UNCATEGORIZED_CATEGORY,
                                  value |-> JsonArray(<<<<"x">>>>)],
                                 [name |-> GROCERIES, value |-> JsonArray(<<Desc_b>>)]>>)) >>

\* "Add Category" pressed with a name typed, before any upload
AddCategory ==
    \E new_category \in {"", GROCERIES, TRANSPORT} :
        /\ phase = "start"
        /\ session' = [session EXCEPT !.categories = AddCategoryTo(@, new_category)]
        /\ categories_file' =
                FileAfterAddCategory(categories_file, session.categories, new_category)
        /\ ret' = [op |-> "add_category", new_category |-> new_category,
                   pre_categories |-> session.categories, pre_file |-> categories_file]
        /\ UNCHANGED <<transactions, db_categories, clock, phase>>

\* add_keywords_to_category(category, keywords) for a category of the
\* registry, before any upload
AddKeywords ==
    \E category \in NamesOf(session.categories),
       keywords \in {<<>>, Desc_a, Desc_a_padded, Desc_b} :
        /\ phase = "start"
        /\ KeywordCount(session.categories) < MaxKeywords
        /\ session' = [session EXCEPT !.categories =
                            AddKeywordsToCategory(@, category, keywords)]
        /\ categories_file' =
                FileAfterAddKeywords(categories_file, session.categories, category, keywords)
        /\ ret' = [op |-> "add_keywords_to_category", category |-> category,
                   keywords |-> keywords,
                   out |-> KeywordIsAdded(session.categories, category, keywords),
                   pre_categories |-> session.categories, pre_file |-> categories_file]
        /\ UNCHANGED <<transactions, db_categories, clock, phase>>

\* "AI Categorize" pressed after an upload that left rows Uncategorized: the
\* script runs again, load_transactions(file) repeats its work, then calls
\* ai_categorize_uncategorized_transactions, insert_transactions and
\* load_all_transactions
AICategorize(responses) ==
    /\ ret.op = "load_transactions"
    /\ ret.ok
    /\ \E k \in 1..Len(ret.out) : ret.out[k].Category = UNCATEGORIZED_CATEGORY
    /\ \E n \in responses :
        LET df == Normalize(ret.file, session.categories)
            r1 == InsertTransactions(transactions, df, clock)
            ai == AICategorizeUncategorized(df, session.categories, categories_file,
                                            AIResponses[n])
            r2 == InsertTransactions(r1.table, ai.df, clock)
        IN  \E p \in RowOrders(r2.table) :
                /\ transactions' = r2.table
                /\ db_categories' = SyncCategories(db_categories, session.categories)
                /\ session' = [categories |-> ai.categories,
                               all_transactions_df |-> LoadAllTransactions(r2.table, p)]
                /\ categories_file' = ai.file
                /\ ret' = [op |-> "ai_categorize", file |-> ret.file, response |-> n,
                           merged |-> ai.merged, out |-> ai.df,
                           counts |-> <<r2.new_count, r2.duplicate_count>>,
                           pre |-> transactions, pre_categories |-> session.categories,
                           pre_file |-> categories_file]
                /\ UNCHANGED clock

\* contents of categories.json at start-up: as for the uploads, and a
\* category with two keywords
AIRegistries ==
    SessionRegistries \cup
    { <<[name |-> UNCATEGORIZED_CATEGORY, keywords |-> <<>>],
        [name |-> GROCERIES, keywords |-> <<<<"x">>, <<"A">>>>]>> }

\* the rows of the files uploaded before the AI button is pressed: two
\* descriptions, one of them on two rows, and an empty description
AIRows ==
    {row \in CsvRows : row.Importe \in {Amount_1234_56, Amount_0_00, Amount_minus_0_00}
                                     \/ row.Concepto = <<>>}

AIFiles == UNION {[1..n -> AIRows] : n \in 0..MaxCsvRows}

InitAI ==
    /\ transactions = <<>>
    /\ db_categories = <<>>
    /\ clock = 0
    /\ ret = [op |-> "init"]
    /\ phase = "start"
    /\ \E reg \in AIRegistries :
        /\ session = [categories |-> reg, all_transactions_df |-> <<>>]
        /\ categories_file = SaveCategories(reg)

\* an upload, the AI button, and the run of the script that st.rerun() starts
UploadForAI ==
    /\ phase = "start"
    /\ LoadTransactions(AIFiles)
    /\ phase' = "uploaded"

PressAICategorize ==
    /\ phase = "uploaded"
    /\ AICategorize(1..Len(AIResponses))
    /\ phase' = "enriched"

Rerun ==
    /\ phase = "enriched"
    /\ LoadTransactions({ret.file})
    /\ phase' = "rerun"

NextAI ==
    \/ UploadForAI
    \/ PressAICategorize
    \/ Rerun

SpecAI == InitAI /\ [][NextAI]_vars

\* the registry edited from the sidebar, an upload of one row, the AI button

\* start-up without categories.json, or with one
InitRegistry ==
    /\ transactions = <<>>
    /\ db_categories = <<>>
    /\ clock = 0
    /\ ret = [op |-> "init"]
    /\ phase = "start"
    /\ \E file \in {NoFile} \cup {SaveCategories(reg) : reg \in SessionRegistries} :
        /\ categories_file = file
        /\ session = [categories |-> LoadCategories(file), all_transactions_df |-> <<>>]

UploadOneRow ==
    /\ phase = "start"
    /\ LoadTransactions({<<row>> : row \in AIRows})
    /\ phase' = "uploaded"

NextRegistry ==
    \/ AddCategory
    \/ AddKeywords
    \/ UploadOneRow
    \/ PressAICategorize

SpecRegistry == InitRegistry /\ [][NextRegistry]_vars

(* a session on a store filled earlier: the category tab and a later upload *)

\* most rows changed in the editor when "Save Changes" is pressed
MaxEdits == 2

\* debits with three descriptions, one of them padded
SessionRows ==
    {[Fecha_valor |-> Date_2Jan, Concepto |-> d, Importe |-> Amount_minus_12_50] :
        d \in {Desc_a, Desc_a_padded, Desc_b}}

\* the statements uploaded in an earlier session: no row twice
EarlierFiles ==
    {file \in UNION {[1..n -> SessionRows] : n \in 0..MaxCsvRows} :
        \A i, j \in 1..Len(file) : file[i] = file[j] => i = j}

\* the statement uploaded in this session: one row of another day
LaterFiles == {<<[row EXCEPT !.Fecha_valor = Date_31Dec]>> : row \in SessionRows}

\* initialize_session_state() when an earlier session has uploaded a file:
\* the registry is read from categories.json and all_transactions_df from
\* the store
InitSession ==
    /\ clock = 0
    /\ ret = [op |-> "init"]
    /\ phase = "start"
    /\ \E reg \in SessionRegistries, file \in EarlierFiles :
        LET r == InsertTransactions(<<>>, Normalize(file, reg), 0)
        IN  \E p \in RowOrders(r.table) :
                /\ transactions = r.table
                /\ db_categories = SyncCategories(<<>>, reg)
                /\ categories_file = SaveCategories(reg)
                /\ session = [categories |-> reg,
                              all_transactions_df |-> LoadAllTransactions(r.table, p)]

\* the body of the loop without 'changes_made += updated_count'
SaveStep_ChangesNotCounted(acc, row, now) ==
    LET r == UpdateTransactionsByConcept(acc.table, row.Concepto, row.Category, now)
        categories == AddKeywordsToCategory(acc.categories, row.Category, row.Concepto)
    IN  [table |-> r.table,
         categories |-> categories,
         file |-> FileAfterAddKeywords(acc.file, acc.categories, row.Category, row.Concepto),
         db_categories |-> SyncCategories(acc.db_categories, categories),
         changes_made |-> acc.changes_made]

\* the body of the loop of process_category_changes for a row whose category
\* was changed: update_transactions_by_concept, add_keywords_to_category,
\* sync_categories
SaveStep(acc, row, now) ==
    LET r == UpdateTransactionsByConcept(acc.table, row.Concepto, row.Category, now)
        categories == AddKeywordsToCategory(acc.categories, row.Category, row.Concepto)
    IN  [table |-> r.table,
         categories |-> categories,
         file |-> FileAfterAddKeywords(acc.file, acc.categories, row.Category, row.Concepto),
         db_categories |-> SyncCategories(acc.db_categories, categories),
         changes_made |-> acc.changes_made + r.updated_count]

RECURSIVE SaveLoop(_, _, _)
SaveLoop(acc, edited, now) ==
    IF edited = <<>> THEN acc
    ELSE SaveLoop(SaveStep(acc, Head(edited), now), Tail(edited), now)

\* the rows of the editor whose Category differs from debits_df, in the order
\* of the frame: rows idxs of the view with the categories chosen
EditedRows(view, idxs, chosen) ==
    [n \in 1..Len(idxs) |-> [view[idxs[n]] EXCEPT !.Category = chosen[n]]]

\* "Save Changes" pressed with up to MaxEdits debits given another category of
\* the registry in the editor; no file is in the uploader
SaveChanges ==
    LET view == session.all_transactions_df
    IN  /\ phase = "start"
        /\ view # <<>>
        /\ \E n \in 0..MaxEdits :
            \E idxs \in [1..n -> 1..Len(view)], chosen \in [1..n -> NamesOf(session.categories)] :
                /\ \A i, j \in 1..n : i < j => idxs[i] < idxs[j]
                /\ \A i \in 1..n : /\ view[idxs[i]].Tipo = "Debit"
                                   /\ chosen[i] # view[idxs[i]].Category
                /\ KeywordCount(session.categories) + n <= MaxKeywords
                /\ LET r == SaveLoop([table |-> transactions,
                                      categories |-> session.categories,
                                      file |-> categories_file,
                                      db_categories |-> db_categories,
                                      changes_made |-> 0],
                                     EditedRows(view, idxs, chosen), clock)
                   IN  \E p \in RowOrders(r.table) :
                        /\ transactions' = r.table
                        /\ db_categories' = r.db_categories
                        /\ categories_file' = r.file
                        /\ session' = [categories |-> r.categories,
                                       all_transactions_df |->
                                            IF r.changes_made > 0
                                            THEN LoadAllTransactions(r.table, p)
                                            ELSE view]
                        /\ ret' = [op |-> "save_changes",
                                   edited |-> EditedRows(view, idxs, chosen),
                                   changes_made |-> r.changes_made,
                                   pre |-> transactions,
                                   pre_categories |-> session.categories,
                                   pre_view |-> view]
                        /\ UNCHANGED <<clock, phase>>

\* "Add Category" pressed in the category tab, which is shown when there are
\* transactions
AddCategoryInTab ==
    /\ session.all_transactions_df # <<>>
    /\ AddCategory

\* a statement is uploaded after the edits
LaterUpload ==
    /\ phase = "start"
    /\ LoadTransactions(LaterFiles)
    /\ phase' = "uploaded"

\* "AI Categorize" pressed after the upload, the AI answering with keywords
\* for Groceries
AICategorizeInSession ==
    /\ phase = "uploaded"
    /\ AICategorize({7, 14})
    /\ phase' = "enriched"

NextSession ==
    \/ AddCategoryInTab
    \/ SaveChanges
    \/ LaterUpload
    \/ AICategorizeInSession

SpecSession == InitSession /\ [][NextSession]_vars

(* insert_transactions called by two sessions on the same database file *)

Sessions == {1, 2}

\* the batches of the two sessions: rows with equal and with different hashes
ConcurrentBatches == UNION {[1..n -> {Row_a, Row_a_again, Row_b}] : n \in 1..MaxBatch}

\* both sessions call insert_transactions and open their connections.  Of a
\* session, done counts the rows its loop has passed; acc holds its counters
\* and, while it has the write lock, the table as its connection sees it (the
\* committed rows and its own uncommitted ones); busy counts the
\* executes that waited for the lock until the timeout
CallConcurrently ==
    /\ phase = "start"
    /\ \E dfs \in [Sessions -> ConcurrentBatches] :
        ret' = [op |-> "concurrent insert_transactions", df |-> dfs,
                pre |-> transactions, lock |-> 0,
                done |-> [s \in Sessions |-> 0],
                status |-> [s \in Sessions |-> "running"],
                busy |-> [s \in Sessions |-> 0],
                acc |-> [s \in Sessions |->
                            [table |-> transactions, new_count |-> 0,
                             duplicate_count |-> 0, errors |-> 0]]]
    /\ phase' = "running"
    /\ UNCHANGED <<transactions, db_categories, clock, session, categories_file>>

\* session s runs one iteration of its loop.  The first INSERT of a
\* connection starts its write transaction and takes the write lock of the
\* file, kept until the commit; an INSERT of the other connection waits for
\* the lock and raises sqlite3.OperationalError (database is locked) when the
\* timeout of the connection passes first, which the except branch catches
ExecuteRow(s) ==
    /\ phase = "running"
    /\ ret.status[s] = "running"
    /\ ret.done[s] < Len(ret.df[s])
    /\ LET row == ret.df[s][ret.done[s] + 1]
           locked == ret.lock \notin {0, s}
           seen == IF ret.lock = s THEN ret.acc[s]
                   ELSE [ret.acc[s] EXCEPT !.table = transactions]
       IN  ret' = [ret EXCEPT
                    !.done[s] = @ + 1,
                    !.acc[s] = InsertStepStorage(seen, row, clock,
                                                 ~RowRaises(row) /\ locked),
                    !.busy[s] = IF ~RowRaises(row) /\ locked THEN @ + 1 ELSE @,
                    !.lock = IF RowRaises(row) \/ locked THEN @ ELSE s]
    /\ UNCHANGED <<transactions, db_categories, clock, phase, session, categories_file>>

\* conn.commit() of session s after its loop: its rows become part of the
\* table and the lock is released; insert_transactions returns
Commit(s) ==
    /\ phase = "running"
    /\ ret.status[s] = "running"
    /\ ret.done[s] = Len(ret.df[s])
    /\ transactions' = IF ret.lock = s THEN ret.acc[s].table ELSE transactions
    /\ ret' = [ret EXCEPT !.status[s] = "returned",
                          !.lock = IF @ = s THEN 0 ELSE @]
    /\ UNCHANGED <<db_categories, clock, phase, session, categories_file>>

\* conn.commit() of session s raises and the rows written so far stay
CommitRaises_RowsKept(s) ==
    /\ phase = "running"
    /\ ret.status[s] = "running"
    /\ ret.done[s] = Len(ret.df[s])
    /\ ret.lock = s
    /\ transactions' = ret.acc[s].table
    /\ ret' = [ret EXCEPT !.status[s] = "raised", !.lock = 0]
    /\ UNCHANGED <<db_categories, clock, phase, session, categories_file>>

\* conn.commit() of session s raises: the context manager of the connection
\* rolls back and the exception leaves insert_transactions
CommitRaises(s) ==
    /\ phase = "running"
    /\ ret.status[s] = "running"
    /\ ret.done[s] = Len(ret.df[s])
    /\ ret.lock = s
    /\ ret' = [ret EXCEPT !.status[s] = "raised", !.lock = 0]
    /\ UNCHANGED <<transactions, db_categories, clock, phase, session, categories_file>>

NextConcurrent ==
    \/ CallConcurrently
    \/ \E s \in Sessions : ExecuteRow(s)
    \/ \E s \in Sessions : Commit(s)
    \/ \E s \in Sessions : CommitRaises(s)

SpecConcurrent == Init /\ [][NextConcurrent]_vars

----------------------------------------------------------------------------
(* Properties *)

IsPrefix(s, t) == Len(s) <= Len(t) /\ \A i \in 1..Len(s) : t[i] = s[i]

\* hashes of the rows of df that insert_transactions can hash
BatchHashes(df) == {HashOfRow(df[k]) : k \in {j \in 1..Len(df) : ~RowRaises(df[j])}}

\* C1: in every state reached by inserts, category updates (by hash, by
\* description) and registry syncs, no two stored records have the same
\* transaction_hash.
C1_HashUnique ==
    \A i, j \in 1..Len(transactions) :
        transactions[i].transaction_hash = transactions[j].transaction_hash => i = j

\* an insert of a record whose hash is stored has been skipped, with at least
\* two records in the store
C1_Witness ==
    /\ ret.op = "insert_transactions"
    /\ ret.out = <<0, 1>>
    /\ ret.errors = 0
    /\ Len(transactions) >= 2

\* C2: when insert_transactions processes rows whose hash is already stored,
\* every stored row keeps all its fields (last_modified included), the rows
\* added follow the stored ones, and exactly the rows that bring a hash not yet
\* stored count in new_count: the others count in duplicate_count.
C2_FirstWriterWins ==
    ret.op = "insert_transactions" =>
        /\ IsPrefix(ret.pre, transactions)
        /\ ret.out[1] = Cardinality(BatchHashes(ret.df) \ StoredHashes(ret.pre))
        /\ ret.out[2] = Len(ret.df) - ret.out[1]
        /\ Len(transactions) = Len(ret.pre) + ret.out[1]

\* a row was skipped whose hash was stored a second earlier with another
\* category and kind
C2_Witness ==
    /\ ret.op = "insert_transactions"
    /\ ret.out[2] >= 1
    /\ \E k \in 1..Len(ret.df), i \in 1..Len(ret.pre) :
        /\ ~RowRaises(ret.df[k])
        /\ ret.pre[i].transaction_hash = HashOfRow(ret.df[k])
        /\ ret.pre[i].category # ret.df[k].Category
        /\ ret.pre[i].tipo # ret.df[k].Tipo
        /\ ret.pre[i].last_modified < clock
        /\ transactions[i] = ret.pre[i]

\* the rows of df have pairwise different hashes and none of them raises
DistinctRows(df) ==
    /\ \A k \in 1..Len(df) : ~RowRaises(df[k])
    /\ \A k, l \in 1..Len(df) : HashOfRow(df[k]) = HashOfRow(df[l]) => k = l

\* the store tbl holds none of the records of df
NoneStored(tbl, df) == BatchHashes(df) \cap StoredHashes(tbl) = {}

\* C3 as stated: from a store holding none of the batch's records, inserting
\* the batch twice returns (N, 0) and then (0, N) with N the length of the
\* batch, and total_transactions is N afterwards (batches of rows that can be
\* hashed: a row that raises is the subject of another claim).
C3_Original ==
    [][(/\ phase' # phase        \* a call is made
        /\ ret.op = "insert_transactions"
        /\ ret'.op = "insert_transactions"
        /\ ret'.df = ret.df
        /\ \A k \in 1..Len(ret.df) : ~RowRaises(ret.df[k])
        /\ ret.pre = <<>>)
       => /\ ret.out = <<Len(ret.df), 0>>
          /\ ret'.out = <<0, Len(ret.df)>>
          /\ GetDatabaseStats(transactions').total_transactions = Len(ret.df)]_vars

\* C3 (amended): for a batch of N valid records (each with a text description
\* and a numeric amount, so that no row raises or is rejected) with pairwise
\* different hashes and a store holding none of them, inserting the batch
\* twice returns (N, 0) and then (0, N), and total_transactions afterwards is
\* the number of records stored before the first call plus N.
C3_Idempotent ==
    [][(/\ phase' # phase        \* a call is made
        /\ ret.op = "insert_transactions"
        /\ ret'.op = "insert_transactions"
        /\ ret'.df = ret.df
        /\ NoneStored(ret.pre, ret.df)
        /\ DistinctRows(ret.df))
       => /\ ret.out = <<Len(ret.df), 0>>
          /\ ret'.out = <<0, Len(ret.df)>>
          /\ GetDatabaseStats(transactions').total_transactions
                = Len(ret.pre) + Len(ret.df)]_vars

\* a batch of two different records was inserted into a store of one other
\* record and then inserted again
C3_Witness ==
    /\ phase = "retried"
    /\ ret.op = "insert_transactions"
    /\ Len(ret.df) = 2
    /\ DistinctRows(ret.df)
    /\ ret.out = <<0, 2>>
    /\ Len(ret.pre) = 3

\* a table without the surrogate ids and the timestamps
Content(tbl) ==
    [i \in 1..Len(tbl) |->
        [transaction_hash |-> tbl[i].transaction_hash,
         fecha_valor |-> tbl[i].fecha_valor, concepto |-> tbl[i].concepto,
         importe |-> tbl[i].importe, tipo |-> tbl[i].tipo,
         category |-> tbl[i].category]]

\* C4: when insert_transactions(batch) is run again after a run that was
\* interrupted or completed, the second run adds exactly the rows whose hash is
\* still missing and changes no stored row; the store then equals (ids and
\* timestamps aside) the result of one uninterrupted run, and would do so had
\* the first run left any prefix of the batch stored; after a completed run
\* the second run returns new_count = 0 and changes nothing.
C4_SelfHealing ==
    [][(/\ ret.op \in {"insert_transactions", "insert_transactions interrupted"}
        /\ ret'.op = "insert_transactions"
        /\ ret'.df = ret.df
        /\ phase' \in {"retried", "recovered"})
       => /\ IsPrefix(transactions, transactions')
          /\ StoredHashes(transactions')
                = StoredHashes(transactions) \cup BatchHashes(ret.df)
          /\ Len(transactions') = Cardinality(StoredHashes(transactions'))
          /\ ret'.out[1] = Len(transactions') - Len(transactions)
          /\ Content(transactions')
                = Content(InsertTransactions(ret.pre, ret.df, clock).table)
          /\ \A k \in 0..Len(ret.df) :
                Content(InsertTransactions(
                            InsertTransactions(ret.pre, SubSeq(ret.df, 1, k), clock).table,
                            ret.df, clock').table)
                    = Content(transactions')
          /\ (ret.op = "insert_transactions"
                => ret'.out[1] = 0 /\ transactions' = transactions)]_vars

\* an interrupted run on a store that held one record of the batch was run
\* again and added the missing record
C4_Witness ==
    /\ phase = "recovered"
    /\ ret.op = "insert_transactions"
    /\ Len(ret.pre) = 1
    /\ ret.out = <<1, 1>>
    /\ ret.errors = 0

\* d1 is a later calendar date than d2 (Timestamps as <<year, month, day>>)
DateAfter(d1, d2) ==
    \/ d1[1] > d2[1]
    \/ d1[1] = d2[1] /\ d1[2] > d2[2]
    \/ d1[1] = d2[1] /\ d1[2] = d2[2] /\ d1[3] > d2[3]

\* the DataFrame out holds the records of table tbl, each once: out[k] is the
\* record of row p[k]
IsViewOf(out, tbl, p) ==
    /\ Len(out) = Len(tbl)
    /\ \A k \in 1..Len(tbl) :
        /\ out[k].Concepto = tbl[p[k]].concepto
        /\ out[k].Importe = tbl[p[k]].importe
        /\ out[k].Tipo = tbl[p[k]].tipo
        /\ out[k].Category = tbl[p[k]].category
        /\ Strftime(out[k].Fecha_valor) = tbl[p[k]].fecha_valor

SortedByDateDescending(out) ==
    \A i, j \in 1..Len(out) :
        i < j => ~DateAfter(out[j].Fecha_valor, out[i].Fecha_valor)

\* C6 as stated: load_all_transactions returns every stored record exactly
\* once, by date descending, records of the same date in insertion order.
C6_Original ==
    ret.op = "load_all_transactions" =>
        \E p \in RowPermutations(Len(ret.pre)) :
            /\ IsViewOf(ret.out, ret.pre, p)
            /\ SortedByDateDescending(ret.out)
            /\ \A i, j \in 1..Len(ret.out) :
                (i < j /\ ret.out[i].Fecha_valor = ret.out[j].Fecha_valor)
                    => p[i] < p[j]

\* C6 (amended): after any sequence of inserts and category updates,
\* load_all_transactions returns every stored record exactly once, by date
\* descending; the order of records of the same date is not fixed.
C6_LoadAllOrdered ==
    ret.op = "load_all_transactions" =>
        /\ transactions = ret.pre
        /\ \E p \in RowPermutations(Len(ret.pre)) :
            /\ IsViewOf(ret.out, ret.pre, p)
            /\ SortedByDateDescending(ret.out)

\* three records were loaded, two of one date after a recategorization, and
\* one of an earlier date that was inserted first
C6_Witness ==
    /\ ret.op = "load_all_transactions"
    /\ Len(ret.out) = 3
    /\ ret.out[1].Fecha_valor = ret.out[2].Fecha_valor
    /\ DateAfter(ret.out[2].Fecha_valor, ret.out[3].Fecha_valor)
    /\ ret.pre[1].fecha_valor = Strftime(ret.out[3].Fecha_valor)
    /\ \E i \in 1..3 : ret.pre[i].category = GROCERIES /\ ret.pre[i].tipo = "Credit"
                        /\ ret.pre[i].concepto = Desc_b

\* the records of DataFrame out are those of DataFrame df, each once
SameRecords(out, df) ==
    /\ Len(out) = Len(df)
    /\ \E p \in RowPermutations(Len(df)) : \A k \in 1..Len(df) : out[k] = df[p[k]]

\* C7 as stated: load_all_transactions after insert_transactions(batch) into
\* an empty store returns the records of the batch, by date descending
\* (batches of rows that can be hashed; the records compared as sets, so that a
\* row repeated verbatim in the batch is not held against the claim).
C7_Original ==
    [][(/\ phase' # phase
        /\ ret.op = "insert_transactions"
        /\ ret.pre = <<>>
        /\ \A k \in 1..Len(ret.df) : ~RowRaises(ret.df[k])
        /\ ret'.op = "load_all_transactions")
       => /\ {ret'.out[k] : k \in 1..Len(ret'.out)} = {ret.df[k] : k \in 1..Len(ret.df)}
          /\ SortedByDateDescending(ret'.out)]_vars

\* C7 (amended): for a batch of valid records (each with a text description
\* and a numeric amount) with pairwise different hashes,
\* load_all_transactions after insert_transactions(batch) into an empty store
\* returns the records of the batch (date, description, amount, kind,
\* category), each once, by date descending.
C7_RoundTrip ==
    [][(/\ phase' # phase
        /\ ret.op = "insert_transactions"
        /\ ret.pre = <<>>
        /\ DistinctRows(ret.df)
        /\ ret'.op = "load_all_transactions")
       => /\ SameRecords(ret'.out, ret.df)
          /\ SortedByDateDescending(ret'.out)]_vars

\* a batch of two records, the earlier date first, was inserted into the empty
\* store and loaded back
C7_Witness ==
    /\ phase = "read"
    /\ ret.op = "load_all_transactions"
    /\ Len(ret.out) = 2
    /\ Len(ret.pre) = 2
    /\ ret.pre[1].upload_date = ret.pre[2].upload_date
    /\ DateAfter(ret.out[1].Fecha_valor, ret.out[2].Fecha_valor)
    /\ ret.pre[1].fecha_valor = Strftime(ret.out[2].Fecha_valor)

\* C8: update_transaction_category(hash, new_category) sets category and
\* last_modified of the one record with that hash and leaves every other
\* record, and every other field, as it was; with no such record the table is
\* unchanged; a second identical call leaves the categories of the first.
C8_UpdateCategoryFrame ==
    ret.op = "update_transaction_category" =>
        /\ Len(transactions) = Len(ret.pre)
        /\ Cardinality({i \in 1..Len(ret.pre) :
                            ret.pre[i].transaction_hash = ret.transaction_hash}) <= 1
        /\ \A i \in 1..Len(ret.pre) :
            IF ret.pre[i].transaction_hash = ret.transaction_hash
            THEN transactions[i] = [ret.pre[i] EXCEPT !.category = ret.new_category,
                                                      !.last_modified = ret.now]
            ELSE transactions[i] = ret.pre[i]
        /\ (ret.transaction_hash \notin StoredHashes(ret.pre) => transactions = ret.pre)
        /\ \A now \in clock..MaxClock :
            Content(UpdateTransactionCategory(transactions, ret.transaction_hash,
                                              ret.new_category, now))
                = Content(transactions)

\* one of two stored records was given another category a second after it was
\* inserted
C8_Witness ==
    /\ ret.op = "update_transaction_category"
    /\ Len(ret.pre) = 2
    /\ \E i \in 1..2 :
        /\ ret.pre[i].transaction_hash = ret.transaction_hash
        /\ ret.pre[i].category # ret.new_category
        /\ ret.pre[i].last_modified < ret.now
        /\ transactions[i].category = ret.new_category
        /\ transactions[i].last_modified = ret.now

\* C9: update_transactions_by_concept(concepto, new_category) sets category
\* (and last_modified) of every record whose concepto is the argument,
\* character for character, returns their number, and leaves every other
\* record as it was.
C9_UpdateByDescriptionFrame ==
    ret.op = "update_transactions_by_concept" =>
        /\ Len(transactions) = Len(ret.pre)
        /\ \A i \in 1..Len(ret.pre) :
            IF ret.pre[i].concepto = ret.concepto
            THEN transactions[i] = [ret.pre[i] EXCEPT !.category = ret.new_category,
                                                      !.last_modified = ret.now]
            ELSE transactions[i] = ret.pre[i]
        /\ ret.out = Cardinality({i \in 1..Len(ret.pre) :
                                    ret.pre[i].concepto = ret.concepto})

\* a record was recategorized by its description a second after its insert
\* while a record whose description differs only by a leading blank was not
C9_Witness ==
    /\ ret.op = "update_transactions_by_concept"
    /\ ret.out = 1
    /\ \E i, j \in 1..Len(ret.pre) :
        /\ ret.pre[i].concepto = ret.concepto
        /\ ret.pre[i].category # ret.new_category
        /\ ret.pre[i].last_modified < ret.now
        /\ transactions[i].category = ret.new_category
        /\ ret.pre[j].concepto # ret.concepto
        /\ Strip(ret.pre[j].concepto) = Strip(ret.concepto)
        /\ ret.pre[j].category # ret.new_category
        /\ transactions[j] = ret.pre[j]

\* the amount in whole cents, to the nearest cent
Cents(x) == (Abs(x) + 5) \div 10

\* C5: two records get the same hash exactly when their dates are equal,
\* their descriptions are equal once trimmed and their absolute amounts are
\* equal to the cent; kind and category play no part, and a record that
\* differs from a stored one in kind or category only is skipped as a
\* duplicate, the stored record staying as it is.
C5_HashEquivalence ==
    /\ ret.op = "generate_transaction_hash" =>
        (ret.out[1] = ret.out[2]
            <=> /\ ret.r1.Fecha_valor = ret.r2.Fecha_valor
                /\ Strip(ret.r1.Concepto) = Strip(ret.r2.Concepto)
                /\ Cents(ret.r1.Importe) = Cents(ret.r2.Importe))
    /\ (/\ phase = "inserted"
        /\ ret.op = "insert_transactions"
        /\ ret.df[1].Fecha_valor = ret.df[2].Fecha_valor
        /\ ret.df[1].Concepto = ret.df[2].Concepto
        /\ ret.df[1].Importe = ret.df[2].Importe)
       => /\ ret.out = <<1, 1>>
          /\ Len(transactions) = 1
          /\ transactions[1].tipo = ret.df[1].Tipo
          /\ transactions[1].category = ret.df[1].Category

\* two records of the same day were hashed alike although description
\* (blanks), amount (sign, thousandths), kind and category differ
C5_Witness ==
    /\ ret.op = "generate_transaction_hash"
    /\ ret.out[1] = ret.out[2]
    /\ ret.r1.Concepto # ret.r2.Concepto
    /\ ret.r1.Importe = 12500
    /\ ret.r2.Importe = -12501
    /\ ret.r1.Tipo # ret.r2.Tipo
    /\ ret.r1.Category # ret.r2.Category

\* an amount cell without its sign and its euro sign
AmountBody(cell) ==
    LET u == IF cell # <<>> /\ Head(cell) = "-" THEN Tail(cell) ELSE cell
    IN  IF u # <<>> /\ u[Len(u)] = EUR THEN SubSeq(u, 1, Len(u) - 1) ELSE u

CommasOf(s) == {i \in 1..Len(s) : s[i] = ","}

\* the cell is a locale-formatted amount: an optional '-', digits in groups
\* of three separated by '.', a ',', one to three decimals, an optional euro
\* sign
LocaleAmount(cell) ==
    LET b == AmountBody(cell)
    IN  /\ Cardinality(CommasOf(b)) = 1
        /\ LET c == CHOOSE i \in CommasOf(b) : TRUE
               whole == SubSeq(b, 1, c - 1)
               decimals == SubSeq(b, c + 1, Len(b))
           IN  /\ Len(decimals) \in 1..3 /\ AllDigits(decimals)
               /\ whole # <<>>
               /\ \A i \in 1..Len(whole) :
                    IF (Len(whole) - i) % 4 = 3 /\ i > 1
                    THEN whole[i] \in Digits \cup {"."}
                    ELSE whole[i] \in Digits
               /\ (\E i \in 1..Len(whole) : whole[i] = ".")
                    => \A i \in 1..Len(whole) :
                            (whole[i] = ".") <=> ((Len(whole) - i) % 4 = 3)

\* the value a locale-formatted amount denotes, in thousandths
Denoted(cell) ==
    LET b == AmountBody(cell)
        c == CHOOSE i \in CommasOf(b) : TRUE
        whole == SelectSeq(SubSeq(b, 1, c - 1), LAMBDA x : x \in Digits)
        decimals == SubSeq(b, c + 1, Len(b))
        thousandths ==
            ParseInt(decimals) * (IF Len(decimals) = 1 THEN 100
                                  ELSE IF Len(decimals) = 2 THEN 10 ELSE 1)
        magnitude == ParseInt(whole) * 1000 + thousandths
    IN  IF Head(cell) = "-" THEN -magnitude ELSE magnitude

\* C10: for every locale-formatted amount of an uploaded file that
\* load_transactions accepts, the kind is Debit exactly when the amount denoted
\* is negative, Credit when it is zero or positive, and the amount kept is its
\* absolute value ("1.234,56€" gives 1234.56, "-12,50€" Debit 12.50, "0,00€"
\* Credit 0.00); a file of locale-formatted amounts, well-formed dates and
\* descriptions is accepted; every stored record has amount >= 0 and kind
\* Debit or Credit.
C10_KindAndAmount ==
    /\ (ret.op = "load_transactions" /\ ret.ok) =>
        \A k \in 1..Len(ret.file) :
            /\ LocaleAmount(ret.file[k].Importe) =>
                /\ ret.out[k].Tipo =
                        (IF Denoted(ret.file[k].Importe) < 0 THEN "Debit" ELSE "Credit")
                /\ ret.out[k].Importe = Abs(Denoted(ret.file[k].Importe))
            /\ ret.file[k].Importe = Amount_1234_56 => ret.out[k].Importe = 1234560
            /\ ret.file[k].Importe = Amount_minus_12_50 =>
                ret.out[k].Tipo = "Debit" /\ ret.out[k].Importe = 12500
            /\ ret.file[k].Importe = Amount_0_00 =>
                ret.out[k].Tipo = "Credit" /\ ret.out[k].Importe = 0
    /\ (/\ ret.op = "load_transactions"
        /\ \A k \in 1..Len(ret.file) :
            /\ LocaleAmount(ret.file[k].Importe)
            /\ ret.file[k].Fecha_valor \in {Date_2Jan, Date_31Dec}
            /\ ret.file[k].Concepto # <<>>)
       => ret.ok
    /\ \A i \in 1..Len(transactions) :
        /\ transactions[i].importe >= 0
        /\ transactions[i].tipo \in {"Debit", "Credit"}
        /\ transactions[i].tipo = "Debit" => transactions[i].importe > 0

\* a file with "-12,50€" and "0,00€" was uploaded and its records stored, the
\* first as a Debit of 12.50, the second as a Credit of 0.00
C10_Witness ==
    /\ ret.op = "load_transactions"
    /\ ret.ok
    /\ Len(ret.file) = 2
    /\ ret.file[1].Importe = Amount_minus_12_50
    /\ ret.file[2].Importe = Amount_0_00
    /\ ret.counts = <<2, 0>>
    /\ \E i, j \in 1..Len(transactions) :
        /\ transactions[i].tipo = "Debit" /\ transactions[i].importe = 12500
        /\ transactions[j].tipo = "Credit" /\ transactions[j].importe = 0

\* keyword kw, lowercased and trimmed, is a substring of the lowercased,
\* trimmed description
Occurs(kw, description) ==
    LET k == Strip(Lower(kw))
        d == Strip(Lower(description))
    IN  \E i \in 1..(Len(d) + 1) :
            /\ i + Len(k) - 1 <= Len(d)
            /\ \A j \in 1..Len(k) : d[i + j - 1] = k[j]

\* the positions of the registry entries, other than Uncategorized, with a
\* keyword that occurs in the description
MatchingEntries(reg, description) ==
    {c \in 1..Len(reg) :
        /\ reg[c].name # UNCATEGORIZED_CATEGORY
        /\ \E k \in 1..Len(reg[c].keywords) : Occurs(reg[c].keywords[k], description)}

\* C11: when keywords of two or more categories match a description,
\* categorize_transactions assigns the first matching category in the order of
\* the registry.
C11_FirstMatchWins ==
    (ret.op = "categorize_transactions" /\ ret.ok) =>
        \A k \in 1..Len(ret.df) :
            LET hits == MatchingEntries(session.categories, ret.df[k].Concepto)
            IN  Cardinality(hits) >= 2 =>
                    \E c \in hits :
                        /\ \A e \in hits : c <= e
                        /\ ret.out[k] = session.categories[c].name

\* C12: categorize_transactions assigns a category other than Uncategorized
\* if and only if some keyword of some category other than Uncategorized,
\* lowercased and trimmed, is a substring of the lowercased, trimmed
\* description, and then a category with such a keyword; otherwise it assigns
\* Uncategorized.
C12_CategorizedIffKeyword ==
    (ret.op = "categorize_transactions" /\ ret.ok) =>
        \A k \in 1..Len(ret.df) :
            LET hits == MatchingEntries(session.categories, ret.df[k].Concepto)
            IN  /\ (ret.out[k] # UNCATEGORIZED_CATEGORY) <=> (hits # {})
                /\ hits # {} => \E c \in hits : ret.out[k] = session.categories[c].name
                /\ hits = {} => ret.out[k] = UNCATEGORIZED_CATEGORY

\* the upper-case keyword "A" of Groceries categorized the description " AB "
\* and a registry of Uncategorized alone left a description uncategorized
C12_Witness ==
    /\ ret.op = "categorize_transactions"
    /\ ret.ok
    /\ ret.df[1].Concepto = <<" ", "A", "B", " ">>
    /\ Len(session.categories) = 2
    /\ session.categories[2] = [name |-> GROCERIES, keywords |-> <<<<"A">>>>]
    /\ session.categories[1].name = UNCATEGORIZED_CATEGORY
    /\ session.categories[1].keywords # <<>>
    /\ ret.out[1] = GROCERIES

\* the rows of df whose processing fails
FailingRows(df) == {k \in 1..Len(df) : IsNaN(df[k].Concepto)}

C14_StorageFailurePropagates ==
    ret.op = "insert_transactions" =>
        \A k \in 1..Len(ret.df) :
            ~RowRaises(ret.df[k]) => HashOfRow(ret.df[k]) \in StoredHashes(transactions)

\* the persisted rows of table tbl named name
RowsNamed(tbl, name) == {i \in 1..Len(tbl) : tbl[i].category_name = name}

\* C15 as stated: after sync_categories(registry) returns, the persisted
\* registry holds exactly the category names of the mapping, each with the
\* keyword list of the mapping in the same order.
C15_Original ==
    ret.op = "sync_categories" =>
        /\ {db_categories[i].category_name : i \in 1..Len(db_categories)}
                = {ret.categories_dict[c].name : c \in 1..Len(ret.categories_dict)}
        /\ \A c \in 1..Len(ret.categories_dict) :
            \A i \in RowsNamed(db_categories, ret.categories_dict[c].name) :
                db_categories[i].keywords = <<"json", ret.categories_dict[c].keywords>>

\* C15 (amended): after sync_categories(registry) returns, every category of
\* the mapping is persisted once, with the keyword list of the mapping in the
\* same order, and every category persisted before under a name that the
\* mapping does not hold is still persisted, with the keywords it had.
C15_SyncUpserts ==
    ret.op = "sync_categories" =>
        /\ \A c \in 1..Len(ret.categories_dict) :
            /\ Cardinality(RowsNamed(db_categories, ret.categories_dict[c].name)) = 1
            /\ \A i \in RowsNamed(db_categories, ret.categories_dict[c].name) :
                db_categories[i].keywords = <<"json", ret.categories_dict[c].keywords>>
        /\ \A j \in 1..Len(ret.pre_categories) :
            (\A c \in 1..Len(ret.categories_dict) :
                ret.categories_dict[c].name # ret.pre_categories[j].category_name)
            => \E i \in 1..Len(db_categories) : db_categories[i] = ret.pre_categories[j]
        /\ \A i \in 1..Len(db_categories) :
            \/ \E c \in 1..Len(ret.categories_dict) :
                ret.categories_dict[c].name = db_categories[i].category_name
            \/ \E j \in 1..Len(ret.pre_categories) : ret.pre_categories[j] = db_categories[i]

\* a mapping without Groceries was synced over a persisted registry that
\* holds Groceries, and one with other keywords for a persisted category
C15_Witness ==
    /\ ret.op = "sync_categories"
    /\ \E j \in 1..Len(ret.pre_categories) :
        /\ ret.pre_categories[j].category_name = GROCERIES
        /\ RowsNamed(db_categories, GROCERIES) # {}
    /\ \A c \in 1..Len(ret.categories_dict) : ret.categories_dict[c].name # GROCERIES
    /\ \E j \in 1..Len(ret.pre_categories), i \in 1..Len(db_categories) :
        /\ ret.pre_categories[j].category_name = db_categories[i].category_name
        /\ ret.pre_categories[j].keywords # db_categories[i].keywords

\* C16: over any sequence of store operations a stored record is never
\* deleted and its hash, date, description, amount and kind (and its id and
\* upload date) never change; its category and last_modified change only in
\* a step of update_transaction_category or update_transactions_by_concept.
C16_RecordsKept ==
    [][/\ Len(transactions') >= Len(transactions)
       /\ \A i \in 1..Len(transactions) :
            /\ transactions'[i].id = transactions[i].id
            /\ transactions'[i].transaction_hash = transactions[i].transaction_hash
            /\ transactions'[i].fecha_valor = transactions[i].fecha_valor
            /\ transactions'[i].concepto = transactions[i].concepto
            /\ transactions'[i].importe = transactions[i].importe
            /\ transactions'[i].tipo = transactions[i].tipo
            /\ transactions'[i].upload_date = transactions[i].upload_date
            /\ (\/ transactions'[i].category # transactions[i].category
                \/ transactions'[i].last_modified # transactions[i].last_modified)
               => ret'.op \in {"update_transaction_category",
                               "update_transactions_by_concept"}]_vars

\* two records are stored and update_transactions_by_concept has just given
\* one of them another category and a later last_modified, the other being
\* as it was
C16_Witness ==
    /\ ret.op = "update_transactions_by_concept"
    /\ Len(transactions) = 2
    /\ ret.out = 1
    /\ \E i \in 1..2 :
        /\ transactions[i].category # ret.pre[i].category
        /\ transactions[i].last_modified > ret.pre[i].last_modified
    /\ \E i \in 1..2 : transactions[i] = ret.pre[i]

\* the sum of the values of the function counts
RECURSIVE SumOfCounts(_)
SumOfCounts(counts) ==
    IF DOMAIN counts = {} THEN 0
    ELSE LET c == CHOOSE x \in DOMAIN counts : TRUE
         IN  counts[c] + SumOfCounts([x \in DOMAIN counts \ {c} |-> counts[x]])

\* C17: get_database_stats changes nothing that is stored, its
\* total_transactions is the number of stored records and the sum of its
\* category_counts, each category count is the number of records of that
\* category, and its date_range is the earliest and the latest fecha_valor of
\* the stored records (None, None for the empty store).
C17_Statistics ==
    [][ret'.op = "get_database_stats" =>
        /\ transactions' = transactions
        /\ db_categories' = db_categories
        /\ session' = session
        /\ categories_file' = categories_file
        /\ ret'.out.total_transactions = Len(transactions)
        /\ SumOfCounts(ret'.out.category_counts) = Len(transactions)
        /\ \A i \in 1..Len(transactions) :
            /\ transactions[i].category \in DOMAIN ret'.out.category_counts
            /\ ret'.out.category_counts[transactions[i].category]
                = Cardinality({j \in 1..Len(transactions) :
                                transactions[j].category = transactions[i].category})
        /\ IF transactions = <<>>
           THEN ret'.out.date_range = <<"None", "None">>
           ELSE /\ \E i \in 1..Len(transactions) :
                    transactions[i].fecha_valor = ret'.out.date_range[1]
                /\ \E i \in 1..Len(transactions) :
                    transactions[i].fecha_valor = ret'.out.date_range[2]
                /\ \A i \in 1..Len(transactions) :
                    /\ ~DateAfter(ToDatetime(ret'.out.date_range[1]),
                                  ToDatetime(transactions[i].fecha_valor))
                    /\ ~DateAfter(ToDatetime(transactions[i].fecha_valor),
                                  ToDatetime(ret'.out.date_range[2]))]_vars

\* get_database_stats returned for a store of three records of two
\* categories and two dates
C17_Witness ==
    /\ ret.op = "get_database_stats"
    /\ ret.out.total_transactions = 3
    /\ Len(transactions) = 3
    /\ Cardinality(DOMAIN ret.out.category_counts) = 2
    /\ ret.out.date_range[1] # ret.out.date_range[2]

\* the items of a appear in b in the same relative order
RECURSIVE IsSubsequence(_, _)
IsSubsequence(a, b) ==
    IF a = <<>> THEN TRUE
    ELSE IF b = <<>> THEN FALSE
    ELSE IF Head(a) = Head(b) THEN IsSubsequence(Tail(a), Tail(b))
    ELSE IsSubsequence(a, Tail(b))

\* C19: merging an AI response is additive: after
\* ai_categorize_uncategorized_transactions every category of the registry as
\* it was is still in the registry and every keyword it had is still in its
\* list, in the same relative order.
C19_MergeAdditive ==
    ret.op = "ai_categorize" =>
        \A c \in 1..Len(ret.pre_categories) :
            \E d \in 1..Len(session.categories) :
                /\ session.categories[d].name = ret.pre_categories[c].name
                /\ IsSubsequence(ret.pre_categories[c].keywords,
                                 session.categories[d].keywords)

\* a response with a new keyword for Groceries was merged into a registry
\* whose Groceries had two keywords
C19_Witness ==
    /\ ret.op = "ai_categorize"
    /\ ret.merged
    /\ Len(ret.pre_categories) = 2
    /\ Len(ret.pre_categories[2].keywords) = 2
    /\ Len(session.categories[2].keywords) = 3
    /\ SubSeq(session.categories[2].keywords, 1, 2) = ret.pre_categories[2].keywords

\* the response is a JSON object whose every member is a list of strings
IsKeywordMapping(response) ==
    /\ response.kind = "json"
    /\ response.value.type = "object"
    /\ \A m \in 1..Len(response.value.members) :
        LET value == response.value.members[m].value
        IN  /\ value.type = "array"
            /\ \A k \in 1..Len(value.items) : IsText(value.items[k])

\* C20: when the AI response is absent, is not JSON, or is JSON that is not a
\* mapping from category name to a list of keyword strings,
\* ai_categorize_uncategorized_transactions is a no-op: the registry in
\* memory, the registry file and the category of every stored transaction
\* are as before, and every record of the upload is in the store.
C20_MalformedIsNoOp ==
    (ret.op = "ai_categorize" /\ ~IsKeywordMapping(AIResponses[ret.response])) =>
        /\ session.categories = ret.pre_categories
        /\ categories_file = ret.pre_file
        /\ \A i \in 1..Len(ret.pre) :
            \E j \in 1..Len(transactions) :
                /\ transactions[j].transaction_hash = ret.pre[i].transaction_hash
                /\ transactions[j].category = ret.pre[i].category
        /\ Len(transactions) >= Len(ret.pre)

\* the operations that change the registry in memory
RegistryMutations == {"add_category", "add_keywords_to_category", "ai_categorize"}

\* C18: after "Add Category", add_keywords_to_category and the merge of an AI
\* response, categories.json holds the registry that is in memory; when the
\* operation changed the registry, the file exists and is its dump.
C18_FileUpToDate ==
    ret.op \in RegistryMutations =>
        /\ LoadCategories(categories_file) = session.categories
        /\ session.categories # ret.pre_categories =>
                /\ categories_file.exists
                /\ JsonLoadRegistry(categories_file.text) = session.categories
                /\ categories_file # ret.pre_file

\* an AI response was merged into a registry that holds a category added from
\* the sidebar with a keyword added from the sidebar
C18_Witness ==
    /\ ret.op = "ai_categorize"
    /\ ret.merged
    /\ TRANSPORT \in NamesOf(ret.pre_categories)
    /\ KeywordsOf(ret.pre_categories, TRANSPORT) = <<Desc_a>>
    /\ KeywordsOf(session.categories, TRANSPORT) = <<Desc_a, Desc_b>>
    /\ JsonLoadRegistry(categories_file.text) = session.categories

\* C21: after ai_categorize_uncategorized_transactions gave a row of the
\* upload a category other than Uncategorized, the stored record of that row
\* carries the new category.
C21_AIResultStored ==
    ret.op = "ai_categorize" =>
        \A k \in 1..Len(ret.out) :
            (/\ Normalize(ret.file, ret.pre_categories)[k].Category = UNCATEGORIZED_CATEGORY
             /\ ret.out[k].Category # UNCATEGORIZED_CATEGORY) =>
                \E j \in 1..Len(transactions) :
                    /\ transactions[j].transaction_hash = HashOfRow(ret.out[k])
                    /\ transactions[j].category = ret.out[k].Category

\* no keyword occurs twice in the list of a category
NoDuplicateKeywords(categories) ==
    \A c \in 1..Len(categories) :
        \A i, j \in 1..Len(categories[c].keywords) :
            categories[c].keywords[i] = categories[c].keywords[j] => i = j

\* C22: add_keywords_to_category(category, keywords) returns True only when
\* the category does not hold the stripped keyword yet, and then appends it;
\* when the category holds it already it returns False and leaves the
\* registry as it was; so no list of the registry holds a keyword twice.
C22_KeywordAddedOnce ==
    ret.op = "add_keywords_to_category" =>
        LET existing == KeywordsOf(ret.pre_categories, ret.category)
            keyword == Strip(ret.keywords)
            held == \E k \in 1..Len(existing) : existing[k] = keyword
        IN  /\ ret.out => ~held
            /\ ret.out => KeywordsOf(session.categories, ret.category)
                            = Append(existing, keyword)
            /\ held => (~ret.out /\ session.categories = ret.pre_categories)
            /\ NoDuplicateKeywords(ret.pre_categories)
                    => NoDuplicateKeywords(session.categories)

\* the categories table holds every category of the registry with its
\* keyword list
RegistrySynced(tbl, categories) ==
    \A c \in 1..Len(categories) :
        \E i \in 1..Len(tbl) :
            /\ tbl[i].category_name = categories[c].name
            /\ tbl[i].keywords = JsonDumps(categories[c].keywords)

\* C23: after "Add Category", after "Save Changes" added a keyword and after
\* the merge of an AI response, the categories table of the database holds
\* every category of the registry in memory with its current keyword list.
C23_CategoriesSynced ==
    ret.op \in {"add_category", "save_changes", "ai_categorize"} =>
        RegistrySynced(db_categories, session.categories)

\* the hashes of the rows of the batches of the two sessions
ConcurrentHashes ==
    UNION {{HashOfRow(ret.df[s][k]) : k \in 1..Len(ret.df[s])} : s \in Sessions}

\* C24: when two sessions have run insert_transactions concurrently on the
\* same database with overlapping batches and both calls have returned,
\* transaction_hash is unique in the table, every hash of the two batches is
\* stored exactly once, and the two new_count add up to the number of rows
\* added to the table.
C24_ConcurrentInserts ==
    (ret.op = "concurrent insert_transactions"
        /\ \A s \in Sessions : ret.status[s] = "returned") =>
        /\ \A i, j \in 1..Len(transactions) :
                transactions[i].transaction_hash = transactions[j].transaction_hash => i = j
        /\ \A h \in ConcurrentHashes :
                Cardinality({i \in 1..Len(transactions) :
                                transactions[i].transaction_hash = h}) = 1
        /\ ret.acc[1].new_count + ret.acc[2].new_count = Len(transactions) - Len(ret.pre)

\* the same when no INSERT waited for the lock until the timeout
ConcurrentInsertsWithoutTimeout ==
    (ret.op = "concurrent insert_transactions"
        /\ \A s \in Sessions : ret.busy[s] = 0) => C24_ConcurrentInserts

\* C25: when insert_transactions(df) returns (new_count, duplicate_count),
\* new_count + duplicate_count is the number of rows of df and the table
\* holds new_count records more than before the call.
C25_CountsAddUp ==
    ret.op = "insert_transactions" =>
        /\ ret.out[1] + ret.out[2] = Len(ret.df)
        /\ Len(transactions) = Len(ret.pre) + ret.out[1]

\* a call on a table that held a record returned (1, 1): a row stored, and a
\* row whose description is empty or whose INSERT raised
C25_Witness ==
    /\ ret.op = "insert_transactions"
    /\ Len(ret.pre) = 1
    /\ Len(ret.df) = 2
    /\ ret.out = <<1, 1>>
    /\ ret.errors = 1
    /\ Len(transactions) = 2

\* the new_count of the sessions whose call has returned, added up
CommittedCount(status, acc) ==
    (IF status[1] = "returned" THEN acc[1].new_count ELSE 0)
        + (IF status[2] = "returned" THEN acc[2].new_count ELSE 0)

\* C26: insert_transactions commits a batch as one unit: the table that other
\* connections read changes only at the single commit of a call, and then by
\* all the rows the call added; a call that ends with an exception leaves the
\* table as it was, so that the table holds the rows of the returned calls
\* only.
C26_BatchAtomic ==
    [][(ret.op = "concurrent insert_transactions"
            /\ ret'.op = "concurrent insert_transactions") =>
        /\ transactions' # transactions =>
                \E s \in Sessions :
                    /\ ret.status[s] = "running"
                    /\ ret'.status[s] = "returned"
                    /\ ret.done[s] = Len(ret.df[s])
                    /\ Len(transactions') = Len(transactions) + ret.acc[s].new_count
                    /\ ret.acc[s].new_count > 0
        /\ \A s \in Sessions :
                (ret.status[s] = "running" /\ ret'.status[s] = "raised") =>
                    transactions' = transactions
        /\ Len(transactions') = Len(ret.pre) + CommittedCount(ret'.status, ret'.acc)
      ]_vars

\* one call has returned and its two rows are in the table, the other call
\* had written a row when its commit raised
C26_Witness ==
    /\ ret.op = "concurrent insert_transactions"
    /\ ret.status[1] = "returned"
    /\ ret.acc[1].new_count = 2
    /\ ret.status[2] = "raised"
    /\ ret.acc[2].new_count >= 1
    /\ Len(transactions) = 2

\* a row of the file has an amount that is no number once '.', the euro sign
\* and the decimal comma are dealt with, or a date that is no
\* day/month/year date
HasMalformedRow(file) ==
    \E k \in 1..Len(file) :
        \/ ~FloatSyntax(CleanAmount(file[k].Importe))
        \/ ~DateSyntax(file[k].Fecha_valor)

C28_CategoryInRegistry ==
    \A i \in 1..Len(transactions) :
        \/ transactions[i].category = UNCATEGORIZED_CATEGORY
        \/ transactions[i].category \in NamesOf(session.categories)

\* a record was moved by "Save Changes" into a category added in the session;
\* a statement was uploaded afterwards and an AI response merged
C28_Witness ==
    /\ ret.op = "ai_categorize"
    /\ ret.merged
    /\ Len(transactions) = 2
    /\ \E i \in 1..Len(transactions) : transactions[i].category = TRANSPORT
    /\ TRANSPORT \in NamesOf(session.categories)
    /\ KeywordsOf(session.categories, TRANSPORT) # <<>>

\* the rows of the upload with description d that were stored as new records
\* carry category c, in the frame and in the table
NewRecordsCarry(out, before, after, d, c) ==
    \A k \in 1..Len(out) :
        (out[k].Concepto = d /\ HashOfRow(out[k]) \notin StoredHashes(before)) =>
            /\ out[k].Category = c
            /\ \E j \in 1..Len(after) :
                /\ after[j].transaction_hash = HashOfRow(out[k])
                /\ after[j].category = c

\* C29 as stated: after "Save Changes" moved the transactions with
\* description d to category c, a transaction with description d that a
\* later upload stores as a new record gets category c, whatever the registry
\* holds.
C29_Original ==
    [][(/\ ret.op = "save_changes"
        /\ ret.edited # <<>>
        /\ ret'.op = "load_transactions"
        /\ ret'.ok) =>
            LET last == ret.edited[Len(ret.edited)]
            IN  NewRecordsCarry(ret'.out, transactions, transactions',
                                last.Concepto, last.Category)
      ]_vars

\* C29: after "Save Changes" moved the transactions with description d to a
\* category c other than Uncategorized, a transaction with description d that
\* a later upload stores as a new record gets category c, provided no other
\* category of the registry holds a keyword that occurs in d.
C29_SavedCategoryLearned ==
    [][(/\ ret.op = "save_changes"
        /\ ret.edited # <<>>
        /\ ret'.op = "load_transactions"
        /\ ret'.ok) =>
            LET last == ret.edited[Len(ret.edited)]
            IN  (/\ last.Category # UNCATEGORIZED_CATEGORY
                 /\ \A c \in MatchingEntries(session.categories, last.Concepto) :
                        session.categories[c].name = last.Category) =>
                    NewRecordsCarry(ret'.out, transactions, transactions',
                                    last.Concepto, last.Category)
      ]_vars

\* two records with the same description, the one uploaded after the other
\* was moved to the added category Transport, both in Transport
C29_Witness ==
    /\ ret.op = "load_transactions"
    /\ ret.ok
    /\ ret.counts = <<1, 0>>
    /\ ret.out[1].Category = TRANSPORT
    /\ Len(transactions) = 2
    /\ transactions[1].concepto = transactions[2].concepto
    /\ transactions[1].category = TRANSPORT
    /\ transactions[2].category = TRANSPORT
    /\ KeywordsOf(session.categories, TRANSPORT) = <<Strip(ret.out[1].Concepto)>>

\* C30: when load_transactions has completed an upload (the AI button pressed
\* or not), and when "Save Changes" has applied an update to the database,
\* the session's all_transactions_df is what load_all_transactions() returns
\* for the table as it is then: every record and every category of the table
\* is in the view.
C30_ViewReloaded ==
    (\/ ret.op = "load_transactions" /\ ret.ok
     \/ ret.op = "ai_categorize"
     \/ ret.op = "save_changes" /\ transactions # ret.pre) =>
        /\ \E p \in RowPermutations(Len(transactions)) :
                IsViewOf(session.all_transactions_df, transactions, p)
        /\ SortedByDateDescending(session.all_transactions_df)

\* "Save Changes" with two changed rows updated two records and the view
\* shows their new categories
C30_Witness ==
    /\ ret.op = "save_changes"
    /\ Len(ret.edited) = 2
    /\ ret.changes_made = 2
    /\ Len(transactions) = 2
    /\ session.all_transactions_df # ret.pre_view
    /\ \A k \in 1..2 : session.all_transactions_df[k].Category # ret.pre_view[k].Category
    /\ \A i \in 1..2 : transactions[i].category # ret.pre[i].category

====
